---- MODULE Spec2Model ----
(***************************************************************************)
(* Event core of the KCL language server (kclvm/tools/src/LSP): the loop   *)
(* of LanguageServerState::run, the request and notification handlers, the *)
(* analysis cache with its snapshots, and the diagnostics jobs of the pool.*)
(***************************************************************************)
EXTENDS Integers, Sequences, FiniteSets, TLC

(* ---------------------------------------------------------------- bounds *)
\* number of messages the client sends on the transport channel
MaxMsgs == 3
\* number of worker threads of the pool (threadpool::ThreadPool::default()
\* takes the number of CPUs)
NumThreads == 2

(* ------------------------------------------------------ the input domain *)
\* file paths the client talks about; a path is its own FileId
Files == {"a.k", "b.k"}
\* document texts; text 1 does not compile
Contents == 1 .. 3
\* the texts the client opens a file with, and the texts its edits produce
OpenTexts == {1, 2}
EditTexts == {1, 3}
\* the workspace roots a word index can be kept for; b.k lies under /pkg
Roots == {"/", "/pkg"}
\* the name a file is renamed to
NewFiles == {"c.k"}
\* the files of a workspace in the order a scan of the directory finds them
FileOrder == <<"a.k", "b.k", "c.k">>
\* the two shapes of the uri string of a FileDelete or FileRename: the
\* file:// URI of the protocol ("file:///a.k") and a bare path ("/a.k")
UriForms == {"uri", "path"}

(* --------------------------------------------- the external collaborators *)
\* kcl_diag_to_lsp_diags over the diagnostics the resolver reports for a text
DiagsOf(c) == IF c = 2 THEN <<"CannotFindModule", "UnusedImport">> ELSE <<>>

\* parse_param_and_compile: Err for a text that does not compile, else the
\* entry {prog, scope, diags}
CompileOk(c) == c # 1
AnalysisDatabase(c) == [prog |-> c, diags |-> DiagsOf(c)]

\* goto_definition / hover / completion / document_symbol on a compiled
\* program at the position of the request: text 2 holds no symbol there
LookupFound(prog) == prog # 2

\* build_word_index_for_file_content: the identifiers of a text, in order
WordsOf(c) == IF c = 1 THEN <<"a", "a">> ELSE IF c = 2 THEN <<"a", "b">> ELSE <<"b", "b">>

(* ------------------------------------------------------------- messages *)
RequestMethods == {"shutdown", "textDocument/definition", "unknown"}
NotificationMethods ==
    {"textDocument/didOpen", "textDocument/didChange", "textDocument/didClose",
     "textDocument/didSave", "workspace/didRenameFiles",
     "workspace/didDeleteFiles", "exit"}

Request(id, method, file) ==
    [kind |-> "request", id |-> id, method |-> method, file |-> file, text |-> 0]
Notification(method, file, text) ==
    [kind |-> "notification", id |-> 0, method |-> method, file |-> file, text |-> text]

\* DeleteFilesParams and RenameFilesParams with one file: the uri strings
\* have the shape `form`
DeleteFiles(form, file) ==
    [kind |-> "notification", id |-> 0, method |-> "workspace/didDeleteFiles",
     file |-> file, text |-> 0, form |-> form]
RenameFiles(form, old, new) ==
    [kind |-> "notification", id |-> 0, method |-> "workspace/didRenameFiles",
     file |-> old, text |-> 0, form |-> form, new_file |-> new]

\* lsp_server::Response::new_ok / new_err
ResponseOk(id, result) ==
    [kind |-> "response", id |-> id, error |-> "none", result |-> result]
ResponseErr(id, code) ==
    [kind |-> "response", id |-> id, error |-> code, result |-> 0]
\* the window/logMessage notification
LogMessage(message) ==
    [kind |-> "notification", method |-> "window/logMessage", message |-> message]
\* the textDocument/publishDiagnostics notification, version: None
PublishDiagnostics(file, diagnostics) ==
    [kind |-> "notification", method |-> "textDocument/publishDiagnostics",
     uri |-> file, diagnostics |-> diagnostics, version |-> "None"]

\* Task::Response and Task::Notify
TaskResponse(r) == [task |-> "Response", msg |-> r]
TaskNotify(n) == [task |-> "Notify", msg |-> n]

(* ---------------------------------------------------------------- state *)
VARIABLES
    receiver,            \* transport channel, client -> loop
    sender,              \* what the latest turn of the loop has put on the
                         \* transport channel loop -> client (the client
                         \* drains the channel between two turns)
    task_receiver,       \* the task channel (task_sender -> task_receiver)
    request_queue,       \* request_queue.incoming: the pending request ids
    shutdown_requested,
    vfs,                 \* file -> text, for the files that have contents
    analysis,            \* analysis.db: file -> AnalysisDatabase
    opened_files,        \* IndexSet<FileId>, in insertion order
    word_index,          \* root -> (word -> locations)
    thread_pool,         \* the jobs queued or running in the pool
    run,                 \* "running", "ok" or "err": where run() is
    next_request_id,     \* the client's request counter
    sent,                \* number of messages the client has sent
    connected,           \* the client holds its end of the transport channel
    fs,                  \* the files on disk: file -> text
    call                 \* the latest direct call of a function of the
                         \* server, with its arguments and its result

vars == <<receiver, sender, task_receiver, request_queue, shutdown_requested,
          vfs, analysis, opened_files, word_index, thread_pool, run,
          next_request_id, sent, connected, fs, call>>

EmptyMap == [x \in {} |-> 0]

\* no function of the server has been called directly
NoCall == [op |-> "none"]

\* LanguageServerState::new: the channels, the request queue, the pool; and
\* the client at its start
InitChannels ==
    /\ receiver = <<>>
    /\ sender = <<>>
    /\ task_receiver = <<>>
    /\ request_queue = {}
    /\ shutdown_requested = FALSE
    /\ thread_pool = <<>>
    /\ run = "running"
    /\ next_request_id = 1
    /\ sent = 0
    /\ connected = TRUE

\* LanguageServerState::new, in a workspace without files on disk
Init ==
    /\ InitChannels
    /\ vfs = EmptyMap
    /\ analysis = EmptyMap
    /\ opened_files = <<>>
    /\ word_index = EmptyMap
    /\ fs = EmptyMap
    /\ call = NoCall

(* ------------------------------------------------------------- helpers *)
\* map.insert(k, v)
Put(map, k, v) == [x \in DOMAIN map \cup {k} |-> IF x = k THEN v ELSE map[x]]

Contains(seq, x) == \E i \in 1 .. Len(seq) : seq[i] = x
IndexOf(seq, x) == CHOOSE i \in 1 .. Len(seq) : seq[i] = x

\* an insert that appends whether or not the element is present
IndexSetInsert_Appends(set, x) == Append(set, x)

\* IndexSet::insert: appends unless already present
IndexSetInsert(set, x) == IF Contains(set, x) THEN set ELSE Append(set, x)

\* IndexSet::remove is swap_remove: the last element takes the freed slot
IndexSetRemove(set, x) ==
    IF ~Contains(set, x) THEN set
    ELSE LET i == IndexOf(set, x)
             n == Len(set)
         IN  [j \in 1 .. n - 1 |-> IF j = i THEN set[n] ELSE set[j]]

\* The fields of LanguageServerState a handler works on, with the changes
\* the Vfs has recorded since the last take_changes and the error (if any)
\* the handler has returned. The client has drained its channel.
State ==
    [sender |-> <<>>, task_receiver |-> task_receiver,
     request_queue |-> request_queue, shutdown_requested |-> shutdown_requested,
     vfs |-> vfs, changes |-> <<>>, analysis |-> analysis,
     opened_files |-> opened_files, word_index |-> word_index,
     thread_pool |-> thread_pool, connected |-> connected, err |-> "none"]

Failed(S) == S.err # "none"
Fail(S, e) == [S EXCEPT !.err = e]

(* ------------------------------------------------------------ state.rs *)
\* LanguageServerState::send: the message is lost, and the result is Err,
\* when the client has dropped its end of the channel
Send(S, message) ==
    IF S.connected THEN [S EXCEPT !.sender = Append(@, message)] ELSE S

\* LanguageServerState::log_message (the result of send is dropped)
log_message(S, message) == Send(S, LogMessage(message))

\* state::log_message putting its notification at the front of the channel
task_log_message_Front(S, message) ==
    [S EXCEPT !.task_receiver = <<TaskNotify(LogMessage(message))>> \o @]

\* state::log_message: a log notification put on the task channel
task_log_message(S, message) ==
    [S EXCEPT !.task_receiver = Append(@, TaskNotify(LogMessage(message)))]

\* register_request leaving the request queue as it is
register_request_Forgets(S, request) == S

\* LanguageServerState::register_request
register_request(S, request) ==
    [S EXCEPT !.request_queue = @ \cup {request.id}]

\* respond sending the response whether or not its id is pending
respond_Unchecked(S, response) ==
    LET S1 == Send([S EXCEPT !.request_queue = @ \ {response.id}], response)
    IN  IF S.connected THEN S1 ELSE Fail(S1, "SendError")

\* LanguageServerState::respond: request_queue.incoming.complete(id) removes
\* the id and yields Some only if it was pending
respond(S, response) ==
    IF response.id \in S.request_queue
    THEN LET S1 == Send([S EXCEPT !.request_queue = @ \ {response.id}], response)
         IN  IF S.connected THEN S1 ELSE Fail(S1, "SendError")
    ELSE S

\* LanguageServerState::snapshot; the vfs is shared, not copied
snapshot(S) ==
    [db |-> S.analysis, opened_files |-> S.opened_files,
     word_index |-> S.word_index]

\* handle_task dropping the notifications of the jobs once the shutdown flag
\* is set
handle_task_DropsAfterShutdown(S, task) ==
    IF task.task = "Notify"
    THEN IF S.shutdown_requested THEN S ELSE Send(S, task.msg)
    ELSE respond(S, task.msg)

\* LanguageServerState::handle_task: the result of send is dropped for a
\* notification, returned for a response
handle_task(S, task) ==
    IF task.task = "Notify" THEN Send(S, task.msg) ELSE respond(S, task.msg)

\* process_vfs_changes compiling only the files that have no entry yet
RECURSIVE CompileChanged_SkipKnown(_, _)
CompileChanged_SkipKnown(S, changed_files) ==
    IF changed_files = <<>> THEN S
    ELSE LET file == Head(changed_files)
             text == S.vfs[file]
             S1 == IF file \in DOMAIN S.analysis THEN S
                   ELSE IF CompileOk(text)
                   THEN [S EXCEPT !.analysis = Put(@, file, AnalysisDatabase(text))]
                   ELSE log_message(S, <<file, "compilation failed">>)
         IN  CompileChanged_SkipKnown(S1, Tail(changed_files))

\* process_vfs_changes leaving its loop at the first file that fails to
\* compile
RECURSIVE CompileChanged_StopsAtFailure(_, _)
CompileChanged_StopsAtFailure(S, changed_files) ==
    IF changed_files = <<>> THEN S
    ELSE LET file == Head(changed_files)
             text == S.vfs[file]
         IN  IF CompileOk(text)
             THEN CompileChanged_StopsAtFailure(
                    [S EXCEPT !.analysis = Put(@, file, AnalysisDatabase(text))],
                    Tail(changed_files))
             ELSE log_message(S, <<file, "compilation failed">>)

\* the body of the loop of process_vfs_changes for one changed file
RECURSIVE CompileChanged(_, _)
CompileChanged(S, changed_files) ==
    IF changed_files = <<>> THEN S
    ELSE LET file == Head(changed_files)
             text == S.vfs[file]
             S1 == IF CompileOk(text)
                   THEN [S EXCEPT !.analysis = Put(@, file, AnalysisDatabase(text))]
                   ELSE log_message(S, <<file, "compilation failed">>)
         IN  CompileChanged(S1, Tail(changed_files))

\* process_vfs_changes testing for changes after it has taken them
StateChanged_AfterTake(S) == FALSE

\* LanguageServerState::process_vfs_changes: the state after it; its result
\* is StateChanged of the state before it
StateChanged(S) == S.changes # <<>>
process_vfs_changes(S) ==
    IF S.changes = <<>> THEN S
    ELSE CompileChanged([S EXCEPT !.changes = <<>>], S.changes)

\* the job handle_event hands to the pool: handle_diagnostics on a snapshot
DiagnosticsJob(snap) == [snapshot |-> snap, pos |-> 1]

\* thread_pool.execute with the jobs sharing one state instead of owning
\* their snapshots
Execute_Shared(S, job) ==
    [S EXCEPT !.thread_pool =
        Append([i \in 1 .. Len(@) |-> [@[i] EXCEPT !.snapshot = job.snapshot]], job)]

\* thread_pool.execute
Execute(S, job) == [S EXCEPT !.thread_pool = Append(@, job)]

(* ---------------------------------------------------------- request.rs *)
\* LanguageServerSnapshot::get_db: "none", or the error it returns; the file
\* id is looked up in the shared vfs, the entry in the snapshot
get_db_err(snap, live_vfs, path) ==
    IF path \notin DOMAIN live_vfs THEN "fileId not found"
    ELSE IF path \notin DOMAIN snap.db THEN "AnalysisDatabase not found"
    ELSE "none"

\* handle_goto_definition taking a file without identity or entry for a
\* lookup that finds nothing
handle_goto_definition_MissOnNoEntry(snap, live_vfs, path) ==
    IF get_db_err(snap, live_vfs, path) = "none" /\ LookupFound(snap.db[path].prog)
    THEN [tasks |-> <<>>, err |-> "none", result |-> snap.db[path].prog]
    ELSE [tasks |-> <<TaskNotify(LogMessage("Definition item not found"))>>,
          err |-> "none", result |-> 0]

\* handle_goto_definition (handle_completion, handle_hover and
\* handle_document_symbol have its shape): the tasks it sends and its result
handle_goto_definition(snap, live_vfs, path) ==
    LET e == get_db_err(snap, live_vfs, path)
    IN  IF e # "none" THEN [tasks |-> <<>>, err |-> e, result |-> 0]
        ELSE IF LookupFound(snap.db[path].prog)
        THEN [tasks |-> <<>>, err |-> "none", result |-> snap.db[path].prog]
        ELSE [tasks |-> <<TaskNotify(LogMessage("Definition item not found"))>>,
              err |-> "none", result |-> 0]

\* RequestDispatcher::on_sync: the handler ran on the state; its result is
\* the response, sent at once
RequestDispatcher_on_sync(S, request) == respond(S, ResponseOk(request.id, 0))

\* RequestDispatcher::on: the handler runs on a snapshot, on the loop thread;
\* the dispatcher puts its response on the task channel, and a log message
\* before it when the handler failed
RequestDispatcher_on(S, request) ==
    LET r == handle_goto_definition(snapshot(S), S.vfs, request.file)
        response == IF r.err = "none" THEN ResponseOk(request.id, r.result)
                    ELSE ResponseErr(request.id, "InternalError")
        log == IF r.err = "none" THEN <<>> ELSE <<TaskNotify(LogMessage(r.err))>>
    IN  [S EXCEPT !.task_receiver = @ \o r.tasks \o log \o <<TaskResponse(response)>>]

\* RequestDispatcher::finish: no handler took the request; finish returns
\* no Result, so an error of its send goes nowhere
RequestDispatcher_finish(S, request) ==
    [respond(S, ResponseErr(request.id, "MethodNotFound")) EXCEPT !.err = "none"]

\* Dispatch with the shutdown handler also taking the methods no handler is
\* registered for
Dispatch_ShutdownOnUnknown(S, request) ==
    IF request.method = "textDocument/definition"
    THEN RequestDispatcher_on(S, request)
    ELSE RequestDispatcher_on_sync([S EXCEPT !.shutdown_requested = TRUE], request)

\* the dispatch chain of on_request
Dispatch(S, request) ==
    IF request.method = "shutdown"
    THEN RequestDispatcher_on_sync([S EXCEPT !.shutdown_requested = TRUE], request)
    ELSE IF request.method = "textDocument/definition"
    THEN RequestDispatcher_on(S, request)
    ELSE RequestDispatcher_finish(S, request)

\* on_request without its check of the shutdown flag
on_request_NoShutdownCheck(S, request) ==
    Dispatch(register_request(task_log_message(S, "on request"), request), request)

\* LanguageServerState::on_request
on_request(S, request) ==
    LET S1 == register_request(task_log_message(S, "on request"), request)
    IN  IF S1.shutdown_requested
        THEN respond(S1, ResponseErr(request.id, "InvalidRequest"))
        ELSE Dispatch(S1, request)

(* ----------------------------------------------------- notification.rs *)
\* Vfs::set_file_contents(path, Some(text)): records a change unless the
\* file already holds this text
set_file_contents(S, path, text) ==
    IF path \in DOMAIN S.vfs /\ S.vfs[path] = text THEN S
    ELSE [S EXCEPT !.vfs = Put(@, path, text), !.changes = Append(@, path)]

\* the fragment of one text: word -> its locations in the file
Fragment(path, text) ==
    LET ws == WordsOf(text)
    IN  [w \in {ws[i] : i \in 1 .. Len(ws)} |->
            SelectSeq([i \in 1 .. Len(ws) |-> [uri |-> path, pos |-> i, word |-> ws[i]]],
                      LAMBDA l : l.word = w)]

\* word_index_subtract: drops from the index every location of the fragment
word_index_subtract(index, frag) ==
    [w \in DOMAIN index |->
        IF w \in DOMAIN frag
        THEN SelectSeq(index[w], LAMBDA l : ~Contains(frag[w], l))
        ELSE index[w]]

\* word_index_add: appends the locations of the fragment
word_index_add(index, frag) ==
    [w \in DOMAIN index \cup DOMAIN frag |->
        (IF w \in DOMAIN index THEN index[w] ELSE <<>>)
        \o (IF w \in DOMAIN frag THEN frag[w] ELSE <<>>)]

\* file_path.starts_with(workspace_folder_path), for the path of a Url
StartsWith(path, root) == root = "/" \/ (root = "/pkg" /\ path = "b.k")

\* Path::new(uri_string).starts_with(workspace_folder_path): the comparison
\* is by path components, and the first component of "file:///a.k" is
\* "file:", not the root directory
PathStartsWith(form, path, root) == form = "path" /\ StartsWith(path, root)

\* Url::from_file_path(Path::new(uri_string)) is Ok only for an absolute
\* path, which "file:///a.k" is not
UrlFromFilePathOk(form) == form = "path"

\* word_index_file_remove: drops every location of the file
word_index_file_remove(index, url) ==
    [w \in DOMAIN index |-> SelectSeq(index[w], LAMBDA l : l.uri # url)]

\* word_index_url_update: rewrites the uri of every location of the file
word_index_url_update(index, old_url, new_url) ==
    [w \in DOMAIN index |->
        [i \in 1 .. Len(index[w]) |->
            IF index[w][i].uri = old_url
            THEN [index[w][i] EXCEPT !.uri = new_url]
            ELSE index[w][i]]]

\* build_word_index: the fragments of the files under the root that have a
\* text in `contents`, file after file in the order of the scan
RECURSIVE IndexFiles(_, _, _)
IndexFiles(files, root, contents) ==
    IF files = <<>> THEN EmptyMap
    ELSE LET f == files[Len(files)]
             rest == IndexFiles(SubSeq(files, 1, Len(files) - 1), root, contents)
         IN  IF f \in DOMAIN contents /\ StartsWith(f, root)
             THEN word_index_add(rest, Fragment(f, contents[f]))
             ELSE rest
build_word_index(root, contents) == IndexFiles(FileOrder, root, contents)

\* LanguageServerState::on_did_open_text_document
on_did_open_text_document(S, path, text) ==
    LET S1 == set_file_contents(log_message(S, "on did open file"), path, text)
    IN  IF path \in DOMAIN S1.vfs
        THEN [S1 EXCEPT !.opened_files = IndexSetInsert(@, path)]
        ELSE S1

\* LanguageServerState::on_did_save_text_document
on_did_save_text_document(S, path) == log_message(S, "on did save file")

\* on_did_change_text_document adding the new fragment without subtracting
\* the old one
on_did_change_text_document_NoSubtract(S, path, text) ==
    LET S1 == log_message(S, "on did_change file")
    IN  IF path \notin DOMAIN S1.vfs
        THEN Fail(S1, "Already checked that the file_id exists!")
        ELSE [set_file_contents(S1, path, text) EXCEPT !.word_index =
                [key \in DOMAIN @ |->
                    IF StartsWith(path, key)
                    THEN word_index_add(@[key], Fragment(path, text))
                    ELSE @[key]]]

\* on_did_change_text_document updating the index of every root, whether or
\* not the file lies under it
on_did_change_text_document_AllRoots(S, path, text) ==
    LET S1 == log_message(S, "on did_change file")
    IN  IF path \notin DOMAIN S1.vfs
        THEN Fail(S1, "Already checked that the file_id exists!")
        ELSE [set_file_contents(S1, path, text) EXCEPT !.word_index =
                [key \in DOMAIN @ |->
                    word_index_add(
                        word_index_subtract(@[key], Fragment(path, S1.vfs[path])),
                        Fragment(path, text))]]

\* on_did_change_text_document adding the fragment of the new text to the
\* indexes before it looks for the file id
on_did_change_text_document_IndexFirst(S, path, text) ==
    LET S1 == [log_message(S, "on did_change file") EXCEPT !.word_index =
                [key \in DOMAIN @ |->
                    IF StartsWith(path, key)
                    THEN word_index_add(@[key], Fragment(path, text))
                    ELSE @[key]]]
    IN  IF path \notin DOMAIN S1.vfs
        THEN Fail(S1, "Already checked that the file_id exists!")
        ELSE LET old_word_index == Fragment(path, S1.vfs[path])
             IN  [set_file_contents(S1, path, text) EXCEPT !.word_index =
                    [key \in DOMAIN @ |->
                        IF StartsWith(path, key)
                        THEN word_index_subtract(@[key], old_word_index)
                        ELSE @[key]]]

\* LanguageServerState::on_did_change_text_document; text is the result of
\* apply_document_changes on the old text
on_did_change_text_document(S, path, text) ==
    LET S1 == log_message(S, "on did_change file")
    IN  IF path \notin DOMAIN S1.vfs
        THEN Fail(S1, "Already checked that the file_id exists!")
        ELSE LET old_text == S1.vfs[path]
                 S2 == set_file_contents(S1, path, text)
                 old_word_index == Fragment(path, old_text)
                 new_word_index == Fragment(path, text)
             IN  [S2 EXCEPT !.word_index =
                    [key \in DOMAIN @ |->
                        IF StartsWith(path, key)
                        THEN word_index_add(
                                word_index_subtract(@[key], old_word_index),
                                new_word_index)
                        ELSE @[key]]]

\* LanguageServerState::on_did_close_text_document
on_did_close_text_document(S, path) ==
    IF path \in DOMAIN S.vfs
    THEN [S EXCEPT !.opened_files = IndexSetRemove(@, path)]
    ELSE S

\* LanguageServerState::on_did_delete_files, for one file
on_did_delete_files(S, form, file) ==
    IF UrlFromFilePathOk(form)
    THEN [log_message(S, "on close file") EXCEPT !.word_index =
            [key \in DOMAIN @ |->
                IF PathStartsWith(form, file, key)
                THEN word_index_file_remove(@[key], file)
                ELSE @[key]]]
    ELSE S

\* LanguageServerState::on_did_rename_files, for one file
on_did_rename_files(S, form, old_uri, new_uri) ==
    [log_message(S, "on rename file") EXCEPT !.word_index =
        [key \in DOMAIN @ |->
            IF PathStartsWith(form, old_uri, key)
            THEN word_index_url_update(@[key], old_uri, new_uri)
            ELSE @[key]]]

\* NotificationDispatcher::on: an error of the handler becomes a log
\* notification and the loop goes on
NotificationDispatcher(S) ==
    IF Failed(S) THEN [log_message(S, S.err) EXCEPT !.err = "none"] ELSE S

\* on_notification returning the error of the handler to handle_event
on_notification_Propagates(S, notification) ==
    LET S1 == log_message(S, "on notification")
    IN  IF notification.method = "textDocument/didChange"
        THEN on_did_change_text_document(S1, notification.file, notification.text)
        ELSE NotificationDispatcher(
               IF notification.method = "textDocument/didOpen"
               THEN on_did_open_text_document(S1, notification.file, notification.text)
               ELSE IF notification.method = "textDocument/didClose"
               THEN on_did_close_text_document(S1, notification.file)
               ELSE S1)

\* on_notification handing nothing to the handlers once the shutdown flag is
\* set
on_notification_StopsAtShutdown(S, notification) ==
    LET S1 == log_message(S, "on notification")
        m == notification.method
        path == notification.file
    IN  NotificationDispatcher(
          IF S.shutdown_requested THEN S1
          ELSE IF m = "textDocument/didOpen"
          THEN on_did_open_text_document(S1, path, notification.text)
          ELSE IF m = "textDocument/didChange"
          THEN on_did_change_text_document(S1, path, notification.text)
          ELSE IF m = "textDocument/didSave"
          THEN on_did_save_text_document(S1, path)
          ELSE IF m = "textDocument/didClose"
          THEN on_did_close_text_document(S1, path)
          ELSE IF m = "workspace/didRenameFiles"
          THEN on_did_rename_files(S1, notification.form, path, notification.new_file)
          ELSE IF m = "workspace/didDeleteFiles"
          THEN on_did_delete_files(S1, notification.form, path)
          ELSE S1)

\* LanguageServerState::on_notification
on_notification(S, notification) ==
    LET S1 == log_message(S, "on notification")
        m == notification.method
        path == notification.file
    IN  NotificationDispatcher(
          IF m = "textDocument/didOpen"
          THEN on_did_open_text_document(S1, path, notification.text)
          ELSE IF m = "textDocument/didChange"
          THEN on_did_change_text_document(S1, path, notification.text)
          ELSE IF m = "textDocument/didSave"
          THEN on_did_save_text_document(S1, path)
          ELSE IF m = "textDocument/didClose"
          THEN on_did_close_text_document(S1, path)
          ELSE IF m = "workspace/didRenameFiles"
          THEN on_did_rename_files(S1, notification.form, path, notification.new_file)
          ELSE IF m = "workspace/didDeleteFiles"
          THEN on_did_delete_files(S1, notification.form, path)
          ELSE S1)

(* ------------------------------------------------- state.rs: the loop *)
\* LanguageServerState::handle_event, step 1
ProcessEvent(S, event) ==
    IF event.source = "Task" THEN handle_task(S, event.msg)
    ELSE IF event.msg.kind = "request" THEN on_request(S, event.msg)
    ELSE IF event.msg.kind = "notification" THEN on_notification(S, event.msg)
    ELSE S

\* handle_event submitting the diagnostics job whether or not a file changed
handle_event_AlwaysDiagnoses(S, event) ==
    LET S1 == ProcessEvent(S, event)
    IN  IF Failed(S1) THEN S1
        ELSE LET S2 == process_vfs_changes(S1)
             IN  Execute(S2, DiagnosticsJob(snapshot(S2)))

\* handle_event submitting a diagnostics job after every task it handles
handle_event_DiagnosesOnTask(S, event) ==
    LET S1 == ProcessEvent(S, event)
    IN  IF Failed(S1) THEN S1
        ELSE LET S2 == process_vfs_changes(S1)
             IN  IF StateChanged(S1) \/ event.source = "Task"
                 THEN Execute(S2, DiagnosticsJob(snapshot(S2)))
                 ELSE S2

\* LanguageServerState::handle_event
handle_event(S, event) ==
    LET S1 == ProcessEvent(S, event)
    IN  IF Failed(S1) THEN S1
        ELSE LET S2 == process_vfs_changes(S1)
             IN  IF StateChanged(S1)
                 THEN Execute(S2, DiagnosticsJob(snapshot(S2)))
                 ELSE S2

EventLsp(msg) == [source |-> "Lsp", msg |-> msg]
EventTask(task) == [source |-> "Task", msg |-> task]

\* the state after one turn of the loop of run() on the event
Commit(S) ==
    /\ sender' = S.sender
    /\ task_receiver' = S.task_receiver
    /\ request_queue' = S.request_queue
    /\ shutdown_requested' = S.shutdown_requested
    /\ vfs' = S.vfs
    /\ analysis' = S.analysis
    /\ opened_files' = S.opened_files
    /\ word_index' = S.word_index
    /\ thread_pool' = S.thread_pool

\* run() returning on a notification that is not `exit`
RunExit_OnSave ==
    /\ run = "running"
    /\ receiver # <<>>
    /\ Head(receiver).kind = "notification"
    /\ Head(receiver).method \in {"exit", "textDocument/didSave"}
    /\ receiver' = Tail(receiver)
    /\ run' = "ok"
    /\ UNCHANGED <<sender, task_receiver, request_queue, shutdown_requested, vfs,
                   analysis, opened_files, word_index, thread_pool,
                   next_request_id, sent, connected, fs, call>>

\* run() handing `exit` to handle_event before it returns
RunExit_HandlesEvent ==
    /\ run = "running"
    /\ receiver # <<>>
    /\ Head(receiver).kind = "notification" /\ Head(receiver).method = "exit"
    /\ receiver' = Tail(receiver)
    /\ \E S \in {handle_event(State, EventLsp(Head(receiver)))} :
          Commit(S) /\ run' = "ok"
    /\ UNCHANGED <<next_request_id, sent, connected, fs, call>>

\* run(): the transport channel is ready and its message is `exit`
RunExit ==
    /\ run = "running"
    /\ receiver # <<>>
    /\ Head(receiver).kind = "notification" /\ Head(receiver).method = "exit"
    /\ receiver' = Tail(receiver)
    /\ run' = "ok"
    /\ UNCHANGED <<sender, task_receiver, request_queue, shutdown_requested, vfs,
                   analysis, opened_files, word_index, thread_pool,
                   next_request_id, sent, connected, fs, call>>

\* run(): the transport channel is ready with a request
RunRequest ==
    /\ run = "running"
    /\ receiver # <<>>
    /\ Head(receiver).kind = "request"
    /\ receiver' = Tail(receiver)
    /\ \E S \in {handle_event(State, EventLsp(Head(receiver)))} :
          Commit(S) /\ run' = IF Failed(S) THEN "err" ELSE "running"
    /\ UNCHANGED <<next_request_id, sent, connected, fs, call>>

\* run(): the transport channel is ready with a notification other than exit
RunNotification ==
    /\ run = "running"
    /\ receiver # <<>>
    /\ Head(receiver).kind = "notification" /\ Head(receiver).method # "exit"
    /\ receiver' = Tail(receiver)
    /\ \E S \in {handle_event(State, EventLsp(Head(receiver)))} :
          Commit(S) /\ run' = IF Failed(S) THEN "err" ELSE "running"
    /\ UNCHANGED <<next_request_id, sent, connected, fs, call>>

\* run(): the task channel is ready
RunTask ==
    /\ run = "running"
    /\ task_receiver # <<>>
    /\ \E S \in {handle_event([State EXCEPT !.task_receiver = Tail(@)],
                                EventTask(Head(task_receiver)))} :
          Commit(S) /\ run' = IF Failed(S) THEN "err" ELSE "running"
    /\ UNCHANGED <<receiver, next_request_id, sent, connected, fs, call>>

(* ------------------------------------------------- the thread pool jobs *)
\* handle_diagnostics reading the entry of the live state
DiagnosticsTasks_Live(snap, pos) ==
    LET file_id == snap.opened_files[pos]
    IN  IF file_id \in DOMAIN analysis
        THEN <<TaskNotify(PublishDiagnostics(file_id, analysis[file_id].diags))>>
        ELSE <<>>

\* handle_diagnostics walking the entries of the cache instead of the open
\* files
DiagnosticsTasks_AllEntries(snap, pos) ==
    IF pos > 1 THEN <<>>
    ELSE LET files == SelectSeq(<<"a.k", "b.k">>, LAMBDA f : f \in DOMAIN snap.db)
         IN  [i \in 1 .. Len(files) |->
                TaskNotify(PublishDiagnostics(files[i], snap.db[files[i]].diags))]

\* handle_diagnostics publishing an empty list instead of the diagnostics of
\* the entry
DiagnosticsTasks_NoDiags(snap, pos) ==
    LET file_id == snap.opened_files[pos]
    IN  IF file_id \in DOMAIN snap.db
        THEN <<TaskNotify(PublishDiagnostics(file_id, <<>>))>>
        ELSE <<>>

\* handle_diagnostics, one turn of its loop: the tasks it sends for the
\* open file at position pos of its snapshot
DiagnosticsTasks(snap, pos) ==
    LET file_id == snap.opened_files[pos]
    IN  IF file_id \in DOMAIN snap.db
        THEN <<TaskNotify(PublishDiagnostics(file_id, snap.db[file_id].diags))>>
        ELSE <<>>

RemoveAt(seq, i) == [j \in 1 .. Len(seq) - 1 |-> IF j < i THEN seq[j] ELSE seq[j + 1]]

\* the jobs the pool is running: the first NumThreads of its queue
Running == 1 .. (IF Len(thread_pool) < NumThreads THEN Len(thread_pool) ELSE NumThreads)

\* a worker that closes, in the state of the loop, the open file it finds no
\* entry for
WorkerDiagnostics_ClosesSkipped ==
    \E i \in Running :
        LET j == thread_pool[i]
            n == Len(j.snapshot.opened_files)
        IN  /\ IF j.pos > n
               THEN /\ thread_pool' = RemoveAt(thread_pool, i)
                    /\ UNCHANGED <<task_receiver, opened_files>>
               ELSE LET tasks == DiagnosticsTasks(j.snapshot, j.pos)
                    IN  /\ IF tasks # <<>> /\ run # "running"
                           THEN /\ thread_pool' = RemoveAt(thread_pool, i)
                                /\ UNCHANGED task_receiver
                           ELSE /\ task_receiver' = task_receiver \o tasks
                                /\ thread_pool' =
                                     IF j.pos = n THEN RemoveAt(thread_pool, i)
                                     ELSE [thread_pool EXCEPT ![i].pos = @ + 1]
                        /\ opened_files' =
                              IF tasks = <<>>
                              THEN IndexSetRemove(opened_files, j.snapshot.opened_files[j.pos])
                              ELSE opened_files
            /\ UNCHANGED <<receiver, sender, request_queue, shutdown_requested, vfs,
                           analysis, word_index, run,
                           next_request_id, sent, connected, fs, call>>

\* a worker thread runs one turn of the loop of handle_diagnostics; a send on
\* the task channel fails once run() has returned and ends the job
WorkerDiagnostics ==
    \E i \in Running :
        LET j == thread_pool[i]
            n == Len(j.snapshot.opened_files)
        IN  /\ IF j.pos > n
               THEN /\ thread_pool' = RemoveAt(thread_pool, i)
                    /\ UNCHANGED task_receiver
               ELSE LET tasks == DiagnosticsTasks(j.snapshot, j.pos)
                    IN  IF tasks # <<>> /\ run # "running"
                        THEN /\ thread_pool' = RemoveAt(thread_pool, i)
                             /\ UNCHANGED task_receiver
                        ELSE /\ task_receiver' = task_receiver \o tasks
                             /\ thread_pool' =
                                  IF j.pos = n THEN RemoveAt(thread_pool, i)
                                  ELSE [thread_pool EXCEPT ![i].pos = @ + 1]
            /\ UNCHANGED <<receiver, sender, request_queue, shutdown_requested, vfs,
                           analysis, opened_files, word_index, run,
                           next_request_id, sent, connected, fs, call>>

(* ------------------------------------------------------------ the client *)
\* Server::send_request: a request with the next id
ClientRequest ==
    /\ sent < MaxMsgs
    /\ run = "running" /\ connected
    /\ \E r \in {Request(next_request_id, "shutdown", ""),
                 Request(next_request_id, "unknown", "")}
              \cup {Request(next_request_id, "textDocument/definition", f) : f \in Files} :
          receiver' = Append(receiver, r)
    /\ next_request_id' = next_request_id + 1
    /\ sent' = sent + 1
    /\ UNCHANGED <<sender, task_receiver, request_queue, shutdown_requested, vfs,
                   analysis, opened_files, word_index, thread_pool, run,
                   connected, fs, call>>

\* Server::notification
ClientNotification ==
    /\ sent < MaxMsgs
    /\ run = "running" /\ connected
    /\ \E n \in {Notification("textDocument/didOpen", f, c) : f \in Files, c \in OpenTexts}
              \cup {Notification("textDocument/didChange", f, c) : f \in Files, c \in EditTexts}
              \cup {Notification("textDocument/didClose", f, 0) : f \in Files}
              \cup {Notification("textDocument/didSave", "", 0), Notification("exit", "", 0)} :
          receiver' = Append(receiver, n)
    /\ sent' = sent + 1
    /\ UNCHANGED <<sender, task_receiver, request_queue, shutdown_requested, vfs,
                   analysis, opened_files, word_index, thread_pool, run,
                   next_request_id, connected, fs, call>>

Next ==
    \/ ClientRequest
    \/ ClientNotification
    \/ RunExit
    \/ RunRequest
    \/ RunNotification
    \/ RunTask
    \/ WorkerDiagnostics

Spec == Init /\ [][Next]_vars

\* a thread of the server, the loop or a worker, takes a step
ServerStep ==
    \/ RunExit \/ RunRequest \/ RunNotification \/ RunTask
    \/ WorkerDiagnostics

\* The threads of the server are scheduled: the server does not stop while
\* its loop has an event to take or its pool a job to run.
FairSpec == Spec /\ WF_vars(ServerStep)

(* ------------------------------------------- the client going away *)
\* the client drops its Connection: the sends of the loop fail from now on,
\* and the transport channel yields what it still holds and then an error
ClientDisconnect ==
    /\ connected /\ run = "running"
    /\ connected' = FALSE
    /\ UNCHANGED <<receiver, sender, task_receiver, request_queue,
                   shutdown_requested, vfs, analysis, opened_files, word_index,
                   thread_pool, run, next_request_id, sent, fs, call>>

\* run(): the transport channel is ready with the error of a closed channel;
\* next_event yields None and run() returns Ok
RunDisconnected ==
    /\ run = "running"
    /\ ~connected /\ receiver = <<>>
    /\ run' = "ok"
    /\ UNCHANGED <<receiver, sender, task_receiver, request_queue,
                   shutdown_requested, vfs, analysis, opened_files, word_index,
                   thread_pool, next_request_id, sent, connected, fs, call>>

DisconnectNext == Next \/ ClientDisconnect \/ RunDisconnected

DisconnectSpec == Init /\ [][DisconnectNext]_vars

(* ------------------------------------------------- the indexed workspace *)
\* the files on disk when the word indexes are built
DiskInit == [f \in Files |-> IF f = "a.k" THEN 2 ELSE 3]

\* The server in a workspace with files on disk, after the word index of
\* every root has been built by a scan of the root.
IndexInit ==
    /\ InitChannels
    /\ vfs = EmptyMap
    /\ analysis = EmptyMap
    /\ opened_files = <<>>
    /\ fs = DiskInit
    /\ word_index = [root \in Roots |-> build_word_index(root, fs)]
    /\ call = NoCall

\* the content of the files of the workspace: the text of the vfs for a
\* file the client has opened, else the text on disk
CurrentContents ==
    [f \in DOMAIN vfs \cup DOMAIN fs |-> IF f \in DOMAIN vfs THEN vfs[f] ELSE fs[f]]

\* the client deletes or renames a file on disk and notifies the server
ClientFileOperation ==
    /\ sent < MaxMsgs
    /\ run = "running" /\ connected
    /\ \E form \in UriForms : \E f \in Files \cap DOMAIN fs :
          \/ /\ receiver' = Append(receiver, DeleteFiles(form, f))
             /\ fs' = [g \in DOMAIN fs \ {f} |-> fs[g]]
          \/ \E new \in NewFiles \ DOMAIN fs :
                /\ receiver' = Append(receiver, RenameFiles(form, f, new))
                /\ fs' = [g \in (DOMAIN fs \ {f}) \cup {new} |->
                            IF g = new THEN fs[f] ELSE fs[g]]
    /\ sent' = sent + 1
    /\ UNCHANGED <<sender, task_receiver, request_queue, shutdown_requested, vfs,
                   analysis, opened_files, word_index, thread_pool, run,
                   next_request_id, connected, call>>

IndexNext == Next \/ ClientFileOperation

IndexSpec == IndexInit /\ [][IndexNext]_vars

(* ------------------------------------- the roots of the word index map *)
\* The server in a workspace with files on disk, after the word indexes of
\* some of the roots have been built by a scan.
RootsInit ==
    /\ InitChannels
    /\ vfs = EmptyMap
    /\ analysis = EmptyMap
    /\ opened_files = <<>>
    /\ fs = DiskInit
    /\ word_index \in {[root \in R |-> build_word_index(root, fs)] : R \in SUBSET Roots}
    /\ call = NoCall

RootsSpec == RootsInit /\ [][IndexNext]_vars

(* ------------------------------------ process_vfs_changes, called directly *)
\* the maps from a subset of the keys to the values
PartialMaps(keys, values) == UNION {[d -> values] : d \in SUBSET keys}

\* the sequences without repetition over a set of at most two files
Batches(files) ==
    {<<>>} \cup {<<f>> : f \in files}
           \cup {b \in files \X files : b[1] # b[2]}

\* The server at a call of process_vfs_changes: the vfs holds the texts of
\* the files the client has opened and edited, the cache the entries of
\* earlier texts that compiled.
BatchInit ==
    /\ InitChannels
    /\ vfs \in PartialMaps(Files, Contents) \ {EmptyMap}
    /\ analysis \in PartialMaps(DOMAIN vfs,
                                 {AnalysisDatabase(c) : c \in {t \in Contents : CompileOk(t)}})
    /\ opened_files = <<>>
    /\ word_index = EmptyMap
    /\ fs = EmptyMap
    /\ call = NoCall

\* process_vfs_changes on the changes the vfs hands out
ProcessVfsChanges ==
    /\ call = NoCall
    /\ \E changed_files \in Batches(DOMAIN vfs) :
          LET S0 == [State EXCEPT !.changes = changed_files]
          IN  /\ Commit(process_vfs_changes(S0))
              /\ call' = [op |-> "process_vfs_changes",
                          changed_files |-> changed_files,
                          result |-> StateChanged(S0)]
    /\ UNCHANGED <<receiver, run, next_request_id, sent, connected, fs>>

BatchSpec == BatchInit /\ [][ProcessVfsChanges]_vars

(* ------------------------------------------- the request queue, observed *)
\* the ids the client uses
RequestIds == 1 .. MaxMsgs

\* the server at its start; the record keeps the ids of the requests the
\* loop has taken, the number of responses the client was sent for each id,
\* and the number of responses handed to handle_task from outside the
\* dispatcher
QueueInit ==
    /\ InitChannels
    /\ vfs = EmptyMap
    /\ analysis = EmptyMap
    /\ opened_files = <<>>
    /\ word_index = EmptyMap
    /\ fs = EmptyMap
    /\ call = [op |-> "none", id |-> 0, received |-> {},
               answered |-> [id \in RequestIds |-> 0], strays |-> 0]

\* the responses per id, with those the turn has sent the client
Answered(S) ==
    [id \in RequestIds |->
        call.answered[id]
          + Len(SelectSeq(S.sender, LAMBDA m : m.kind = "response" /\ m.id = id))]

\* a turn of the loop on a request with the next id of the client
QueueOnRequest ==
    /\ next_request_id \in RequestIds
    /\ \E r \in {Request(next_request_id, "shutdown", ""),
                 Request(next_request_id, "unknown", "")}
              \cup {Request(next_request_id, "textDocument/definition", f) : f \in Files} :
          LET S == handle_event(State, EventLsp(r))
          IN  /\ Commit(S)
              /\ call' = [call EXCEPT !.op = "on_request", !.id = r.id,
                                      !.received = @ \cup {r.id},
                                      !.answered = Answered(S)]
    /\ next_request_id' = next_request_id + 1
    /\ UNCHANGED <<receiver, run, sent, connected, fs>>

\* a turn of the loop on the oldest task of the task channel
QueueOnTask ==
    /\ task_receiver # <<>>
    /\ LET S == handle_event([State EXCEPT !.task_receiver = Tail(@)],
                             EventTask(Head(task_receiver)))
       IN  /\ Commit(S)
           /\ call' = [call EXCEPT !.op = "handle_task",
                                   !.id = IF Head(task_receiver).task = "Response"
                                          THEN Head(task_receiver).msg.id ELSE 0,
                                   !.answered = Answered(S)]
    /\ UNCHANGED <<receiver, run, next_request_id, sent, connected, fs>>

\* handle_event on a Task::Response that no dispatcher has sent, with any id
QueueOnStrayResponse ==
    /\ call.strays < MaxMsgs
    /\ \E id \in RequestIds :
          LET S == handle_event(State, EventTask(TaskResponse(ResponseOk(id, 0))))
          IN  /\ Commit(S)
              /\ call' = [call EXCEPT !.op = "stray", !.id = id,
                                      !.answered = Answered(S),
                                      !.strays = @ + 1]
    /\ UNCHANGED <<receiver, run, next_request_id, sent, connected, fs>>

QueueNext == QueueOnRequest \/ QueueOnTask \/ QueueOnStrayResponse

QueueSpec == QueueInit /\ [][QueueNext]_vars

(* ------------------------------------- handle_diagnostics, called directly *)
\* handle_diagnostics from the open file at position pos on: the tasks it
\* sends and its result. get_file_name and url come first in the body of the
\* loop, and their `?` returns the error from the function; `unreadable` are
\* the files for which one of the two returns Err.
RECURSIVE handle_diagnostics(_, _, _)
handle_diagnostics(snap, pos, unreadable) ==
    IF pos > Len(snap.opened_files) THEN [tasks |-> <<>>, result |-> "Ok"]
    ELSE IF snap.opened_files[pos] \in unreadable
    THEN [tasks |-> <<>>, result |-> "Err"]
    ELSE LET rest == handle_diagnostics(snap, pos + 1, unreadable)
         IN  [tasks |-> DiagnosticsTasks(snap, pos) \o rest.tasks,
              result |-> rest.result]

\* The server between two turns of its loop: some files have texts that
\* compile, some of them an entry, some are open.
DiagInit ==
    /\ InitChannels
    /\ vfs \in PartialMaps(Files, {c \in Contents : CompileOk(c)}) \ {EmptyMap}
    /\ analysis \in PartialMaps(DOMAIN vfs,
                                 {AnalysisDatabase(c) : c \in {t \in Contents : CompileOk(t)}})
    /\ opened_files \in Batches(DOMAIN vfs)
    /\ word_index = EmptyMap
    /\ fs = EmptyMap
    /\ call = NoCall

\* the closure handle_event hands to the pool, run to its end: `let _result =
\* handle_diagnostics(snapshot, task_sender)` drops the result
HandleDiagnostics ==
    /\ call = NoCall
    /\ \E unreadable \in SUBSET Files :
          LET snap == snapshot(State)
              r == handle_diagnostics(snap, 1, unreadable)
          IN  /\ task_receiver' = task_receiver \o r.tasks
              /\ call' = [op |-> "handle_diagnostics", snapshot |-> snap,
                          unreadable |-> unreadable, result |-> r.result]
    /\ UNCHANGED <<receiver, sender, request_queue, shutdown_requested, vfs,
                   analysis, opened_files, word_index, thread_pool, run,
                   next_request_id, sent, connected, fs>>

DiagSpec == DiagInit /\ [][HandleDiagnostics]_vars

(* --------------------------------------- the reader/writer lock of the vfs *)
\* The threads: 0 is the loop thread, the others are the workers of the pool.
Threads == 0 .. NumThreads

\* What a thread does with the lock and the channels, in program order:
\* "write" and "read" ask for the lock, "unlock" drops the guard taken last,
\* "send" puts a task on the task channel, "execute" hands a job to the pool.

\* on_did_open_text_document: the write guard is a temporary of the statement
\* of set_file_contents, the read guard one of the `if let`
on_did_open_text_document_HoldsWrite == <<"write", "read", "unlock", "unlock">>
on_did_open_text_document_locks == <<"write", "unlock", "read", "unlock">>

\* on_did_change_text_document: the write guard lives to the end of the
\* function, or to the `?` of the file id
on_did_change_text_document_locks == <<"write", "unlock">>

\* on_did_close_text_document and get_db: a read guard for the lookup of the
\* file id
on_did_close_text_document_locks == <<"read", "unlock">>
get_db_locks == <<"read", "unlock">>

\* util::get_file_name takes the read guard by value and drops it on return
get_file_name_locks == <<"unlock">>

\* parse_param_and_compile reads the text of the file in the vfs it is given
parse_param_and_compile_locks == <<"read", "unlock">>

\* to_lsp::url reads the path of the file in the vfs of the snapshot
url_locks == <<"read", "unlock">>

\* process_vfs_changes: the write guard of take_changes; for a changed file
\* the read guard that is moved into get_file_name, and the compilation
process_vfs_changes_locks(changed) ==
    <<"write", "unlock">>
      \o (IF changed
          THEN <<"read">> \o get_file_name_locks \o parse_param_and_compile_locks
          ELSE <<>>)

\* the kinds of events of the loop; a didOpen and a didChange of an open
\* file change the vfs
EventKinds == {"didOpen", "didChange", "didChangeNoId", "didClose", "definition"}

\* handle_event: the handler, process_vfs_changes, and the job when a file
\* has changed
handle_event_locks(kind) ==
    (IF kind = "didOpen" THEN on_did_open_text_document_locks
     ELSE IF kind \in {"didChange", "didChangeNoId"}
     THEN on_did_change_text_document_locks
     ELSE IF kind = "didClose" THEN on_did_close_text_document_locks
     ELSE IF kind = "definition" THEN get_db_locks
     ELSE <<>>)
      \o process_vfs_changes_locks(kind \in {"didOpen", "didChange"})
      \o (IF kind \in {"didOpen", "didChange"} THEN <<"execute">> ELSE <<>>)

\* handle_diagnostics on a snapshot with n open files: per file the read
\* guard that is moved into get_file_name, the read of url, and the send
RECURSIVE handle_diagnostics_locks(_)
handle_diagnostics_locks(n) ==
    IF n = 0 THEN <<>>
    ELSE <<"read">> \o get_file_name_locks \o url_locks \o <<"send">>
           \o handle_diagnostics_locks(n - 1)

\* parking_lot::RwLock: a writer gets the lock when no guard is out, a reader
\* when no write guard is out and no writer waits
Grantable(t, mode) ==
    IF mode = "write"
    THEN \A u \in Threads : call.holds[u] = <<>>
    ELSE /\ \A u \in Threads : ~Contains(call.holds[u], "write")
         /\ \A u \in Threads : call.waiting[u] # "write"

\* every thread is blocked on its channel: the loop in next_event, the
\* workers on the queue of the pool
LockInit ==
    /\ InitChannels
    /\ vfs = EmptyMap
    /\ analysis = EmptyMap
    /\ opened_files = <<>>
    /\ word_index = EmptyMap
    /\ fs = EmptyMap
    /\ call = [op |-> "locks",
               prog |-> [t \in Threads |-> <<>>],
               waiting |-> [t \in Threads |-> "none"],
               holds |-> [t \in Threads |-> <<>>],
               open |-> 0, queue |-> <<>>, tasks |-> 0]

LockFrame ==
    UNCHANGED <<receiver, sender, task_receiver, request_queue, shutdown_requested,
                vfs, analysis, opened_files, word_index, thread_pool, run,
                next_request_id, connected, fs>>

\* next_event yields a message of the client
LockTakesMessage ==
    /\ call.prog[0] = <<>> /\ sent < MaxMsgs
    /\ \E kind \in EventKinds :
          /\ (kind \in {"didChange", "didClose"}) => call.open > 0
          /\ call' = [call EXCEPT
                        !.prog[0] = handle_event_locks(kind),
                        !.open = IF kind = "didOpen" /\ @ < Cardinality(Files) THEN @ + 1
                                 ELSE IF kind = "didClose" THEN @ - 1 ELSE @]
    /\ sent' = sent + 1
    /\ LockFrame

\* next_event yields a task
LockTakesTask ==
    /\ call.prog[0] = <<>> /\ call.tasks > 0
    /\ call' = [call EXCEPT !.prog[0] = handle_event_locks("task"), !.tasks = @ - 1]
    /\ UNCHANGED sent /\ LockFrame

\* a worker takes the oldest job of the pool
LockTakesJob(t) ==
    /\ t # 0 /\ call.prog[t] = <<>> /\ call.queue # <<>>
    /\ call' = [call EXCEPT !.prog[t] = handle_diagnostics_locks(Head(call.queue)),
                            !.queue = Tail(@)]
    /\ UNCHANGED sent /\ LockFrame

\* the thread asks for the lock
LockRequest(t) ==
    /\ call.prog[t] # <<>> /\ Head(call.prog[t]) \in {"read", "write"}
    /\ call.waiting[t] = "none"
    /\ call' = [call EXCEPT !.waiting[t] = Head(call.prog[t])]
    /\ UNCHANGED sent /\ LockFrame

\* the lock is granted to the thread
LockGrant(t) ==
    /\ call.waiting[t] # "none"
    /\ Grantable(t, call.waiting[t])
    /\ call' = [call EXCEPT !.holds[t] = Append(@, call.waiting[t]),
                            !.waiting[t] = "none",
                            !.prog[t] = Tail(@)]
    /\ UNCHANGED sent /\ LockFrame

\* the thread drops the guard it has taken last
LockRelease(t) ==
    /\ call.prog[t] # <<>> /\ Head(call.prog[t]) = "unlock"
    /\ call' = [call EXCEPT !.holds[t] = SubSeq(@, 1, Len(@) - 1),
                            !.prog[t] = Tail(@)]
    /\ UNCHANGED sent /\ LockFrame

\* a worker sends a task: the channel is unbounded, the send does not wait
LockSend(t) ==
    /\ call.prog[t] # <<>> /\ Head(call.prog[t]) = "send"
    /\ call' = [call EXCEPT !.tasks = @ + 1, !.prog[t] = Tail(@)]
    /\ UNCHANGED sent /\ LockFrame

\* the loop hands the job over its open files to the pool
LockExecute(t) ==
    /\ call.prog[t] # <<>> /\ Head(call.prog[t]) = "execute"
    /\ call' = [call EXCEPT !.queue = Append(@, call.open), !.prog[t] = Tail(@)]
    /\ UNCHANGED sent /\ LockFrame

\* a step of the thread
ThreadStep(t) ==
    \/ LockRequest(t) \/ LockGrant(t) \/ LockRelease(t)
    \/ LockSend(t) \/ LockExecute(t) \/ LockTakesJob(t)

LockNext ==
    \/ LockTakesMessage
    \/ LockTakesTask
    \/ \E t \in Threads : ThreadStep(t)

\* every thread is scheduled, and the loop takes the tasks that wait
LockSpec ==
    /\ LockInit /\ [][LockNext]_vars
    /\ \A t \in Threads : WF_vars(ThreadStep(t))
    /\ WF_vars(LockTakesTask)

(* ------------------------------------------------------- find_refs.rs *)
\* the identifiers of the texts
Words == {"a", "b"}

\* a file outside every package
NoPkgFiles == {"readme.md"}

\* the sets of directories that hold a kcl.mod
ModDirs == {{}, {"/"}, {"/", "/pkg"}}

\* kclvm_config::modfile::get_pkg_root: the directory of the nearest kcl.mod
\* above the file, "None" when there is none
get_pkg_root(file, mods) ==
    IF file \notin Files THEN "None"
    ELSE IF "/pkg" \in mods /\ StartsWith(file, "/pkg") THEN "/pkg"
    ELSE IF "/" \in mods THEN "/"
    ELSE "None"

\* from_lsp::kcl_pos and the way back: the compiler counts one higher than
\* the protocol
kcl_pos(pos) == pos + 1
lsp_pos(pos) == pos - 1

\* a Location: uri and range (start and end); an identifier is one wide
LocationTo(uri, pos, end) == [uri |-> uri, pos |-> pos, end |-> end]
Location(uri, pos) == LocationTo(uri, pos, pos + 1)

\* goto_def::goto_definition on the program compiled from the file, at a
\* position of the compiler: "None", a single location, or several targets.
\* In `b b` both identifiers are the variable defined by the first; in `a b`
\* the `a` is a definition, except in b.k when a.k defines `a` too (there it
\* is the imported `a` of a.k), and the `b` has no definition in a.k and two
\* in b.k.
goto_definition(file, contents, pos) ==
    LET text == contents[file]
        i == pos - 1
    IN  IF i \notin 1 .. Len(WordsOf(text)) THEN [kind |-> "None"]
        ELSE IF text = 3
        THEN [kind |-> "Scalar", loc |-> Location(file, lsp_pos(kcl_pos(1)))]
        ELSE IF i = 1
        THEN IF file = "b.k" /\ "a.k" \in DOMAIN contents /\ contents["a.k"] = 2
             THEN [kind |-> "Scalar", loc |-> Location("a.k", lsp_pos(kcl_pos(1)))]
             ELSE [kind |-> "Scalar", loc |-> Location(file, lsp_pos(kcl_pos(1)))]
        ELSE IF file = "a.k" THEN [kind |-> "None"] ELSE [kind |-> "Array"]

\* the filter comparing the ranges of the two locations, not their files
KeepsRef_RangeOnly(ref_loc, def_loc, contents) ==
    IF CompileOk(contents[ref_loc.uri])
    THEN LET real_def == goto_definition(ref_loc.uri, contents, kcl_pos(ref_loc.pos))
         IN  /\ real_def.kind = "Scalar"
             /\ real_def.loc.pos = def_loc.pos /\ real_def.loc.end = def_loc.end
    ELSE FALSE

\* the filter looking for references in the file of the definition only
KeepsRef_SameFile(ref_loc, def_loc, contents) ==
    IF CompileOk(contents[ref_loc.uri]) /\ ref_loc.uri = def_loc.uri
    THEN LET real_def == goto_definition(ref_loc.uri, contents, kcl_pos(ref_loc.pos))
         IN  real_def.kind = "Scalar" /\ real_def.loc = def_loc
    ELSE FALSE

\* the closure of the filter of find_refs: does the candidate stay
KeepsRef(ref_loc, def_loc, contents) ==
    IF CompileOk(contents[ref_loc.uri])
    THEN LET real_def == goto_definition(ref_loc.uri, contents, kcl_pos(ref_loc.pos))
         IN  real_def.kind = "Scalar" /\ real_def.loc = def_loc
    ELSE FALSE

\* what the closure hands to the logger for the candidate: nothing, or
\* format!("{cursor_path} compilation failed")
LogsOfRef(ref_loc, cursor_path, contents) ==
    IF CompileOk(contents[ref_loc.uri]) THEN <<>>
    ELSE <<<<cursor_path, "compilation failed">>>>

\* the filter collecting the candidates it keeps in front of the earlier ones
RECURSIVE FilterRefs_Reversed(_, _, _, _, _)
FilterRefs_Reversed(locs, def_loc, cursor_path, logger_ok, contents) ==
    IF locs = <<>> THEN [kept |-> <<>>, logs |-> <<>>]
    ELSE LET ref_loc == Head(locs)
             rest == FilterRefs_Reversed(Tail(locs), def_loc, cursor_path,
                                         logger_ok, contents)
         IN  [kept |-> IF KeepsRef(ref_loc, def_loc, contents)
                       THEN rest.kept \o <<Location(ref_loc.uri, ref_loc.pos)>>
                       ELSE rest.kept,
              logs |-> LogsOfRef(ref_loc, cursor_path, contents) \o rest.logs]

\* the filter giving up at the first candidate whose logger call fails
RECURSIVE FilterRefs_LoggerError(_, _, _, _, _)
FilterRefs_LoggerError(locs, def_loc, cursor_path, logger_ok, contents) ==
    IF locs = <<>> THEN [kept |-> <<>>, logs |-> <<>>]
    ELSE LET ref_loc == Head(locs)
             logs == LogsOfRef(ref_loc, cursor_path, contents)
             rest == FilterRefs_LoggerError(Tail(locs), def_loc, cursor_path,
                                            logger_ok, contents)
         IN  IF logs # <<>> /\ ~logger_ok THEN [kept |-> <<>>, logs |-> logs]
             ELSE [kept |-> IF KeepsRef(ref_loc, def_loc, contents)
                            THEN <<Location(ref_loc.uri, ref_loc.pos)>> \o rest.kept
                            ELSE rest.kept,
                   logs |-> logs \o rest.logs]

\* locs.into_iter().filter(..).collect(), with the messages the logger got;
\* what the logger returns is dropped (`let _ =`)
RECURSIVE FilterRefs(_, _, _, _, _)
FilterRefs(locs, def_loc, cursor_path, logger_ok, contents) ==
    IF locs = <<>> THEN [kept |-> <<>>, logs |-> <<>>]
    ELSE LET ref_loc == Head(locs)
             rest == FilterRefs(Tail(locs), def_loc, cursor_path, logger_ok, contents)
         IN  [kept |-> IF KeepsRef(ref_loc, def_loc, contents)
                       THEN <<Location(ref_loc.uri, ref_loc.pos)>> \o rest.kept
                       ELSE rest.kept,
              logs |-> LogsOfRef(ref_loc, cursor_path, contents) \o rest.logs]

\* the input of a call of find_refs: the definition, the name, the path of
\* the cursor, the kcl.mod files, whether build_word_index and the logger
\* return Ok
FindRefsInputs ==
    [def_loc : {LocationTo(uri, pos, end) :
                    uri \in Files \cup NoPkgFiles, pos \in 1 .. 2, end \in 2 .. 4},
     name : Words, cursor_path : Files, mods : ModDirs,
     build_ok : BOOLEAN, logger_ok : BOOLEAN]

\* find_refs: Ok(None), Ok(Some(locations)) or Err (kind, with the locations
\* in result), and the messages the logger got; the files are read from disk
find_refs(in, contents) ==
    LET root == get_pkg_root(in.def_loc.uri, in.mods)
    IN  IF root = "None" THEN [kind |-> "None", result |-> <<>>, logs |-> <<>>]
        ELSE IF ~in.build_ok
        THEN [kind |-> IF in.logger_ok THEN "None" ELSE "Err", result |-> <<>>,
              logs |-> <<<<"", "build word index failed">>>>]
        ELSE LET index == build_word_index(root, contents)
             IN  IF in.name \notin DOMAIN index
                 THEN [kind |-> "None", result |-> <<>>, logs |-> <<>>]
                 ELSE LET r == FilterRefs(index[in.name], in.def_loc, in.cursor_path,
                                          in.logger_ok, contents)
                      IN  [kind |-> "Some", result |-> r.kept, logs |-> r.logs]

\* a workspace on disk, before find_refs is called on it
RefsInit ==
    /\ InitChannels
    /\ vfs = EmptyMap
    /\ analysis = EmptyMap
    /\ opened_files = <<>>
    /\ word_index = EmptyMap
    /\ fs \in PartialMaps(Files, Contents)
    /\ call = NoCall

\* find_refs called with a definition location and a name
FindRefs ==
    /\ call = NoCall
    /\ \E in \in FindRefsInputs :
          /\ in.def_loc.end \in in.def_loc.pos + 1 .. in.def_loc.pos + 2
          /\ LET r == find_refs(in, fs)
             IN  call' = [op |-> "find_refs", in |-> in, def_loc |-> in.def_loc,
                          name |-> in.name, kind |-> r.kind,
                          result |-> r.result, logs |-> r.logs]
    /\ UNCHANGED <<receiver, sender, task_receiver, request_queue,
                   shutdown_requested, vfs, analysis, opened_files, word_index,
                   thread_pool, run, next_request_id, sent, connected, fs>>

RefsSpec == RefsInit /\ [][FindRefs]_vars

(* --------------------------------- find_refs, called on the running server *)
\* number of calls of find_refs
MaxQueries == 2

\* the references of the first identifier of a file, by either name; every
\* directory holds a kcl.mod, the scan and the logger succeed
QueryInputs ==
    {[def_loc |-> Location(f, 1), name |-> w, cursor_path |-> f,
      mods |-> {"/", "/pkg"}, build_ok |-> TRUE, logger_ok |-> TRUE] :
        f \in Files, w \in Words}

\* LanguageServerState::new in a workspace with files on disk; find_refs has
\* not been called, no root has been scanned
QueryInit ==
    /\ InitChannels
    /\ vfs = EmptyMap
    /\ analysis = EmptyMap
    /\ opened_files = <<>>
    /\ word_index = EmptyMap
    /\ fs = DiskInit
    /\ call = [op |-> "none", n |-> 0, scans |-> [root \in Roots |-> 0],
               root |-> "None", name |-> "", candidates |-> <<>>,
               kind |-> "None", result |-> <<>>]

\* find_refs called while the server runs: it calls build_word_index on the
\* root of the definition, which scans the files on disk, looks the name up
\* in the index it got and drops the index when it returns
QueryFindRefs ==
    /\ call.n < MaxQueries
    /\ \E in \in QueryInputs :
          LET root == get_pkg_root(in.def_loc.uri, in.mods)
              index == build_word_index(root, fs)
              r == find_refs(in, fs)
          IN  call' = [op |-> "find_refs", n |-> call.n + 1,
                       scans |-> [call.scans EXCEPT ![root] = @ + 1],
                       root |-> root, name |-> in.name,
                       candidates |-> IF in.name \in DOMAIN index
                                      THEN index[in.name] ELSE <<>>,
                       kind |-> r.kind, result |-> r.result]
    /\ UNCHANGED <<receiver, sender, task_receiver, request_queue,
                   shutdown_requested, vfs, analysis, opened_files, word_index,
                   thread_pool, run, next_request_id, sent, connected, fs>>

QueryNext ==
    \/ ClientNotification
    \/ RunExit
    \/ RunNotification
    \/ RunTask
    \/ WorkerDiagnostics
    \/ QueryFindRefs

QuerySpec == QueryInit /\ [][QueryNext]_vars

(* ---------------------------------------- the edits of a document *)
\* a text is the sequence of its characters (each one UTF-16 unit wide)
\* TextDocumentContentChangeEvent: range None, or a range of positions
\* (line, character), and the replacement text
FullChange(text) ==
    [ranged |-> FALSE, sl |-> 0, sc |-> 0, el |-> 0, ec |-> 0, text |-> text]
RangeChange(sl, sc, el, ec, text) ==
    [ranged |-> TRUE, sl |-> sl, sc |-> sc, el |-> el, ec |-> ec, text |-> text]

\* the offset of a position in a text: the characters before its line, and
\* its character
Newlines(text) == {i \in 1 .. Len(text) : text[i] = "\n"}
LineStart(text, line) ==
    IF line = 0 THEN 0
    ELSE CHOOSE i \in Newlines(text) :
            Cardinality({j \in Newlines(text) : j <= i}) = line
LineEnd(text, line) ==
    IF line = Cardinality(Newlines(text)) THEN Len(text)
    ELSE LineStart(text, line + 1) - 1
ValidPosition(text, line, character) ==
    /\ line <= Cardinality(Newlines(text))
    /\ LineStart(text, line) + character <= LineEnd(text, line)
Offset(text, line, character) == LineStart(text, line) + character

\* one change applied to a text
ApplyChange(text, change) ==
    IF change.ranged
    THEN LET start == Offset(text, change.sl, change.sc)
             end == Offset(text, change.el, change.ec)
         IN  SubSeq(text, 1, start) \o change.text \o SubSeq(text, end + 1, Len(text))
    ELSE change.text

\* util::apply_document_changes: the changes applied in order, each to the
\* text the changes before it have produced
RECURSIVE apply_document_changes(_, _)
apply_document_changes(old_text, content_changes) ==
    IF content_changes = <<>> THEN old_text
    ELSE apply_document_changes(ApplyChange(old_text, Head(content_changes)),
                                Tail(content_changes))

\* every range of the changes lies in the text it is applied to
RECURSIVE ValidChanges(_, _)
ValidChanges(text, content_changes) ==
    IF content_changes = <<>> THEN TRUE
    ELSE LET change == Head(content_changes)
         IN  /\ change.ranged =>
                    /\ ValidPosition(text, change.sl, change.sc)
                    /\ ValidPosition(text, change.el, change.ec)
                    /\ Offset(text, change.sl, change.sc)
                         <= Offset(text, change.el, change.ec)
             /\ ValidChanges(ApplyChange(text, change), Tail(content_changes))

\* on_did_change_text_document applying the changes to a new String
on_did_change_FromEmpty(S, path, content_changes) ==
    on_did_change_text_document(S, path,
        apply_document_changes(<<>>, content_changes))

\* on_did_change_text_document storing old_text
on_did_change_StoresOld(S, path, content_changes) ==
    IF path \notin DOMAIN S.vfs
    THEN on_did_change_text_document(S, path, <<>>)
    ELSE on_did_change_text_document(S, path, S.vfs[path])

\* on_did_change_text_document on the changes of the notification: the text
\* of the file id, the changes applied to it, the result stored
on_did_change(S, path, content_changes) ==
    IF path \notin DOMAIN S.vfs
    THEN on_did_change_text_document(S, path, <<>>)
    ELSE on_did_change_text_document(S, path,
            apply_document_changes(S.vfs[path], content_changes))

\* the change lists of test_apply_document_changes, and lists that mix range
\* changes and changes of the whole document
TheChanges == <<FullChange(<<"t", "h", "e">>)>>
QuickChanges == <<RangeChange(0, 3, 0, 3, <<" ", "q", "u", "i", "c", "k">>)>>
FoxesChanges == <<RangeChange(0, 0, 0, 4, <<>>), RangeChange(0, 5, 0, 5, <<" ", "f", "o", "x", "e", "s">>)>>
DreamChanges == <<RangeChange(0, 11, 0, 11, <<"\n", "d", "r", "e", "a", "m">>)>>
HaveChanges == <<RangeChange(1, 0, 1, 0, <<"h", "a", "v", "e", " ">>)>>
ChangeLists ==
    {<<>>, TheChanges, QuickChanges, FoxesChanges, DreamChanges, HaveChanges,
     <<RangeChange(0, 0, 0, 1, <<"x">>), FullChange(<<"a", "b">>)>>,
     <<FullChange(<<"a", "\n", "b">>), RangeChange(0, 1, 1, 0, <<>>)>>,
     <<RangeChange(0, 0, 0, 0, <<"x">>), RangeChange(0, 0, 0, 0, <<"y">>)>>}

\* the number of change notifications of a run
MaxEdits == 5

\* a.k is open with an empty text, no workspace is indexed
EditInit ==
    /\ InitChannels
    /\ vfs = ("a.k" :> <<>>)
    /\ analysis = EmptyMap
    /\ opened_files = <<"a.k">>
    /\ word_index = EmptyMap
    /\ fs = EmptyMap
    /\ call = NoCall

\* the handler of a didChange notification for a.k, on texts of characters;
\* the recompilation that follows it in the loop is in Spec
DidChangeTextDocument ==
    /\ sent < MaxEdits
    /\ \E path \in Files : \E content_changes \in ChangeLists :
          /\ path \in DOMAIN vfs => ValidChanges(vfs[path], content_changes)
          /\ LET S == on_did_change(State, path, content_changes)
             IN  /\ vfs' = S.vfs
                 /\ sender' = S.sender
                 /\ call' = [op |-> "on_did_change_text_document", path |-> path,
                             content_changes |-> content_changes, err |-> S.err]
    /\ sent' = sent + 1
    /\ UNCHANGED <<receiver, task_receiver, request_queue, shutdown_requested,
                   analysis, opened_files, word_index, thread_pool, run,
                   next_request_id, connected, fs>>

EditSpec == EditInit /\ [][DidChangeTextDocument]_vars

(* ------------------------------------- the arrival order of the events *)
\* The loop with a record of the order in which the events now waiting on
\* the two channels were enqueued: `call.order` holds, oldest first, the
\* channel ("Lsp" or "Task") of every event that waits.
RECURSIVE RemoveFirst(_, _)
RemoveFirst(order, tag) ==
    IF order = <<>> THEN <<>>
    ELSE IF Head(order) = tag THEN Tail(order)
    ELSE <<Head(order)>> \o RemoveFirst(Tail(order), tag)
Tags(n, tag) == [i \in 1 .. n |-> tag]

OrderInit ==
    /\ InitChannels
    /\ vfs = EmptyMap
    /\ analysis = EmptyMap
    /\ opened_files = <<>>
    /\ word_index = EmptyMap
    /\ fs = EmptyMap
    /\ call = [op |-> "arrivals", order |-> <<>>]

\* the client sends a request or a notification
OrderClient ==
    /\ sent < MaxMsgs
    /\ run = "running" /\ connected
    /\ \E kind \in {"request", "notification"} :
       \E m \in IF kind = "request"
               THEN {Request(next_request_id, "shutdown", "")}
                      \cup {Request(next_request_id, "textDocument/definition", f) :
                              f \in Files}
               ELSE {Notification("textDocument/didOpen", f, c) :
                        f \in Files, c \in OpenTexts}
                      \cup {Notification("exit", "", 0)} :
          /\ receiver' = Append(receiver, m)
          /\ next_request_id' = IF kind = "request" THEN next_request_id + 1
                                ELSE next_request_id
    /\ sent' = sent + 1
    /\ call' = [call EXCEPT !.order = Append(@, "Lsp")]
    /\ UNCHANGED <<sender, task_receiver, request_queue, shutdown_requested, vfs,
                   analysis, opened_files, word_index, thread_pool, run,
                   connected, fs>>

\* next_event: select! takes a message of the transport channel; any channel
\* that is ready may be the one it takes from
OrderRunLsp ==
    /\ run = "running"
    /\ receiver # <<>>
    /\ receiver' = Tail(receiver)
    /\ IF Head(receiver).kind = "notification" /\ Head(receiver).method = "exit"
       THEN /\ run' = "ok"
            /\ call' = [call EXCEPT !.order = RemoveFirst(@, "Lsp")]
            /\ UNCHANGED <<sender, task_receiver, request_queue,
                           shutdown_requested, vfs, analysis, opened_files,
                           word_index, thread_pool>>
       ELSE \E S \in {handle_event(State, EventLsp(Head(receiver)))} :
               /\ Commit(S)
               /\ run' = IF Failed(S) THEN "err" ELSE "running"
               /\ call' = [call EXCEPT !.order =
                             RemoveFirst(@, "Lsp")
                               \o Tags(Len(S.task_receiver) - Len(task_receiver), "Task")]
    /\ UNCHANGED <<next_request_id, sent, connected, fs>>

\* next_event: select! takes a task of the task channel
OrderRunTask ==
    /\ run = "running"
    /\ task_receiver # <<>>
    /\ \E S \in {handle_event([State EXCEPT !.task_receiver = Tail(@)],
                                EventTask(Head(task_receiver)))} :
          /\ Commit(S)
          /\ run' = IF Failed(S) THEN "err" ELSE "running"
          /\ call' = [call EXCEPT !.order =
                        RemoveFirst(@, "Task")
                          \o Tags(Len(S.task_receiver) - Len(task_receiver) + 1, "Task")]
    /\ UNCHANGED <<receiver, next_request_id, sent, connected, fs>>

\* a worker thread runs one turn of the loop of handle_diagnostics
OrderWorker ==
    \E i \in Running :
        LET j == thread_pool[i]
            n == Len(j.snapshot.opened_files)
            tasks == IF j.pos > n \/ run # "running" THEN <<>>
                     ELSE DiagnosticsTasks(j.snapshot, j.pos)
            ends == \/ j.pos >= n
                    \/ run # "running" /\ DiagnosticsTasks(j.snapshot, j.pos) # <<>>
        IN  /\ task_receiver' = task_receiver \o tasks
            /\ thread_pool' = IF ends THEN RemoveAt(thread_pool, i)
                              ELSE [thread_pool EXCEPT ![i].pos = @ + 1]
            /\ call' = [call EXCEPT !.order = @ \o Tags(Len(tasks), "Task")]
            /\ UNCHANGED <<receiver, sender, request_queue, shutdown_requested, vfs,
                           analysis, opened_files, word_index, run,
                           next_request_id, sent, connected, fs>>

OrderNext == OrderClient \/ OrderRunLsp \/ OrderRunTask \/ OrderWorker

OrderSpec == OrderInit /\ [][OrderNext]_vars

(* ------------------------------------------------------------ the claims *)
\* the step is a turn of the loop that takes a request, `exit`, or another
\* notification from the transport channel
TakesRequest ==
    /\ run = "running" /\ receiver # <<>> /\ receiver' = Tail(receiver)
    /\ Head(receiver).kind = "request"
TakesExit ==
    /\ run = "running" /\ receiver # <<>> /\ receiver' = Tail(receiver)
    /\ Head(receiver).kind = "notification" /\ Head(receiver).method = "exit"
TakesNotification ==
    /\ run = "running" /\ receiver # <<>> /\ receiver' = Tail(receiver)
    /\ Head(receiver).kind = "notification" /\ Head(receiver).method # "exit"
\* the tasks the step has put on the task channel
Appended ==
    IF Len(task_receiver') > Len(task_receiver)
    THEN SubSeq(task_receiver', Len(task_receiver) + 1, Len(task_receiver'))
    ELSE <<>>
IsPublishTask(t) ==
    /\ t.task = "Notify" /\ t.msg.method = "textDocument/publishDiagnostics"

Elems(seq) == {seq[i] : i \in 1 .. Len(seq)}
IsPublish(m) == m.kind = "notification" /\ m.method = "textDocument/publishDiagnostics"
IsResponse(m) == m.kind = "response"

\* C1: once the shutdown flag is set, the turn of the loop that takes a
\* request answers it with an InvalidRequest error response carrying the
\* request's id and hands it to no handler: nothing but the "on request" log
\* goes on the task channel, no job is started, the flag and the pending ids
\* stay as they were.
C1_RejectsAfterShutdown ==
    [][(TakesRequest /\ shutdown_requested) =>
          /\ sender' = <<ResponseErr(Head(receiver).id, "InvalidRequest")>>
          /\ task_receiver' = Append(task_receiver, TaskNotify(LogMessage("on request")))
          /\ thread_pool' = thread_pool
          /\ request_queue' = request_queue
          /\ shutdown_requested']_vars

C1_Witness ==
    /\ shutdown_requested
    /\ \E m \in Elems(sender) : IsResponse(m) /\ m.error = "InvalidRequest"

\* C2: the shutdown flag is false at the start, a step sets it only by taking
\* a shutdown request, and no step clears it.
C2_ShutdownMonotonic ==
    /\ shutdown_requested = FALSE
    /\ [][/\ shutdown_requested => shutdown_requested'
          /\ (~shutdown_requested /\ shutdown_requested') =>
                (TakesRequest /\ Head(receiver).method = "shutdown")]_vars

C2_Witness ==
    /\ shutdown_requested
    /\ \E m \in Elems(sender) : IsPublish(m)

Lifecycle ==
    IF run # "running" THEN "Terminated"
    ELSE IF shutdown_requested THEN "ShutdownRequested" ELSE "Running"

C4_ExitReturnsAtOnce ==
    [][/\ TakesExit =>
             /\ run' = "ok"
             /\ UNCHANGED <<sender, task_receiver, request_queue, shutdown_requested,
                            vfs, analysis, opened_files, word_index, thread_pool>>
       /\ run = "ok" =>
             UNCHANGED <<sender, task_receiver, request_queue, shutdown_requested,
                         vfs, analysis, opened_files, word_index, run>>]_vars

C4_Witness ==
    /\ run = "ok"
    /\ \E t \in Elems(task_receiver) : t.task = "Notify" /\ IsPublish(t.msg)

C6_DiagnosticsFromSnapshot ==
    [][\A n \in 1 .. Len(Appended) :
          IsPublishTask(Appended[n]) =>
             \E i \in Running :
                LET j == thread_pool[i]
                IN  /\ j.pos <= Len(j.snapshot.opened_files)
                    /\ j.snapshot.opened_files[j.pos] \in DOMAIN j.snapshot.db
                    /\ Appended[n].msg =
                          PublishDiagnostics(
                              j.snapshot.opened_files[j.pos],
                              j.snapshot.db[j.snapshot.opened_files[j.pos]].diags)]_vars

C6_Witness ==
    \E n \in 1 .. Len(task_receiver) :
        /\ IsPublishTask(task_receiver[n])
        /\ task_receiver[n].msg.diagnostics # analysis[task_receiver[n].msg.uri].diags

C8_PublishOnlyOpen ==
    \A m \in Elems(sender) : IsPublish(m) => Contains(opened_files, m.uri)

\* C8, amended: a publishDiagnostics task is put on the task channel only by
\* a running job, for a file that is open in the job's snapshot, and the loop
\* sends the client no publishDiagnostics but the task it has just taken.
C8_PublishOnlySnapshotOpen ==
    [][/\ \A n \in 1 .. Len(Appended) :
             IsPublishTask(Appended[n]) =>
                \E i \in Running :
                   Contains(thread_pool[i].snapshot.opened_files, Appended[n].msg.uri)
       /\ \A m \in Elems(sender') :
             IsPublish(m) =>
                \/ sender' = sender
                \/ /\ task_receiver # <<>>
                   /\ task_receiver' = Tail(task_receiver)
                   /\ Head(task_receiver) = TaskNotify(m)]_vars

C8_Witness ==
    \E m \in Elems(sender) : IsPublish(m) /\ ~Contains(opened_files, m.uri)

C10_RequestAnswered ==
    /\ \A i \in 1 .. MaxMsgs :
          (/\ run = "running" /\ ~shutdown_requested
           /\ receiver # <<>>
           /\ Head(receiver).kind = "request" /\ Head(receiver).id = i)
          ~> (\/ \E m \in Elems(sender) : IsResponse(m) /\ m.id = i
              \/ run # "running")
    /\ [](\A m \in Elems(sender) : IsResponse(m) => m.id \in 1 .. next_request_id - 1)

C10_Witness ==
    /\ run = "running" /\ ~shutdown_requested
    /\ \E m \in Elems(sender) : IsResponse(m) /\ m.error = "none" /\ m.result = 3

TakesTask ==
    /\ run = "running" /\ task_receiver # <<>>
    /\ task_receiver' = Tail(task_receiver) /\ receiver' = receiver

\* C13: once the client has dropped its end of the channel, every turn of the
\* loop that sends on it ends run() with an error: the turn that takes a
\* notification (it logs the notification), the turn that takes a Notify
\* task (it forwards the notification) and the turn that takes the response
\* of a pending request.
C13_SendFailureEndsRun ==
    [][(/\ ~connected
        /\ \/ TakesNotification
           \/ TakesTask /\ Head(task_receiver).task = "Notify"
           \/ TakesTask /\ Head(task_receiver).task = "Response"
                        /\ Head(task_receiver).msg.id \in request_queue)
       => run' = "err"]_vars

\* the step is a turn of the loop that takes a notification of the method
TakesMethod(m) == TakesNotification /\ Head(receiver).method = m

\* the locations an index holds for a word, and how often it holds one
Lookup(index, w) == IF w \in DOMAIN index THEN Elems(index[w]) ELSE {}
Count(index, w, l) ==
    IF w \in DOMAIN index THEN Len(SelectSeq(index[w], LAMBDA x : x = l)) ELSE 0

\* two indexes hold the same occurrences, each as often: they are equal as
\* multisets of (identifier, file, range) triples
SameOccurrences(i1, i2) ==
    \A w \in DOMAIN i1 \cup DOMAIN i2 :
        \A l \in Lookup(i1, w) \cup Lookup(i2, w) : Count(i1, w, l) = Count(i2, w, l)

\* the index of the root holds what a scan of the current content of the
\* files under the root finds
UpToDate(root) ==
    SameOccurrences(word_index[root], build_word_index(root, CurrentContents))

LocationsOf(index, file) ==
    {l \in UNION {Elems(index[w]) : w \in DOMAIN index} : l.uri = file}
\* no index of the map holds a location of the file
NoLocationIn(index_map, file) ==
    \A root \in DOMAIN index_map : LocationsOf(index_map[root], file) = {}

\* C15: after the turn of the loop that takes a rename notification F -> F',
\* the index of every root that contains F holds, for every identifier and
\* every location it held in F, the location with the same range in F', and
\* holds no location in F any more.
C15_RenamePreservesLookups ==
    [][TakesMethod("workspace/didRenameFiles") =>
          LET F == Head(receiver).file
              F2 == Head(receiver).new_file
          IN  \A root \in DOMAIN word_index :
                StartsWith(F, root) =>
                  /\ \A l \in LocationsOf(word_index[root], F) :
                        [l EXCEPT !.uri = F2] \in Lookup(word_index'[root], l.word)
                  /\ LocationsOf(word_index'[root], F) = {}]_vars

\* C16: after the turn of the loop that takes a delete notification for F no
\* index holds a location of F; and a file without locations in the indexes
\* gets none unless a turn takes an edit of it or a rename to it.
C16_DeletePurges ==
    [][/\ TakesMethod("workspace/didDeleteFiles") =>
             NoLocationIn(word_index', Head(receiver).file)
       /\ \A f \in Files :
            (/\ NoLocationIn(word_index, f)
             /\ ~(TakesMethod("textDocument/didChange") /\ Head(receiver).file = f)
             /\ ~(TakesMethod("workspace/didRenameFiles") /\ Head(receiver).new_file = f))
            => NoLocationIn(word_index', f)]_vars

\* C17: no index of a root holds the same (identifier, file, range)
\* occurrence twice.
C17_NoDuplicates ==
    \A root \in DOMAIN word_index :
        \A w \in DOMAIN word_index[root] :
            \A i, j \in 1 .. Len(word_index[root][w]) :
                i # j => word_index[root][w][i] # word_index[root][w][j]

\* the candidates of a call of find_refs: the occurrence list the index of
\* the definition's package root holds for the name, as locations
PkgRoot == get_pkg_root(call.def_loc.uri, call.in.mods)
Candidates ==
    LET index == build_word_index(PkgRoot, fs)
    IN  IF call.name \in DOMAIN index
        THEN [i \in 1 .. Len(index[call.name]) |->
                Location(index[call.name][i].uri, index[call.name][i].pos)]
        ELSE <<>>
ReturnsRefs == call.op = "find_refs" /\ call.kind = "Some"

\* C18: every location find_refs returns is a candidate of the index entry of
\* the name, lies in a file that compiles, and goto_definition at its start
\* yields a single location equal to the definition location of the call.
C18_RefsSound ==
    ReturnsRefs =>
        \A l \in Elems(call.result) :
            /\ l \in Elems(Candidates)
            /\ CompileOk(fs[l.uri])
            /\ goto_definition(l.uri, fs, kcl_pos(l.pos))
                 = [kind |-> "Scalar", loc |-> call.def_loc]

\* find_refs has returned references and has left out a candidate that lies
\* at the range of the definition in another file
C18_Witness ==
    /\ ReturnsRefs /\ call.result # <<>>
    /\ \E c \in Elems(Candidates) :
          /\ c \notin Elems(call.result)
          /\ c.pos = call.def_loc.pos /\ c.uri # call.def_loc.uri

\* C19: when the definition has a package root and the index of the root
\* could be built, every occurrence of the name in a file under the root, in
\* a file that compiles, at which goto_definition yields the definition
\* location of the call, is in the result of find_refs; so is the occurrence
\* at the definition itself.
C19_RefsComplete ==
    (call.op = "find_refs" /\ PkgRoot # "None" /\ call.in.build_ok) =>
        \A f \in DOMAIN fs : \A i \in 1 .. Len(WordsOf(fs[f])) :
            (/\ StartsWith(f, PkgRoot)
             /\ WordsOf(fs[f])[i] = call.name
             /\ CompileOk(fs[f])
             /\ goto_definition(f, fs, kcl_pos(i))
                  = [kind |-> "Scalar", loc |-> call.def_loc])
            => (ReturnsRefs /\ Location(f, i) \in Elems(call.result))

\* find_refs has returned the occurrence at the definition and a reference
\* from another file
C19_Witness ==
    /\ ReturnsRefs
    /\ call.def_loc \in Elems(call.result)
    /\ \E l \in Elems(call.result) : l.uri # call.def_loc.uri

\* C20: the list find_refs returns is the occurrence list of the index for
\* the name with some candidates left out: the locations it keeps stand in the
\* order of the list, each once.
C20_RefsInScanOrder ==
    ReturnsRefs =>
        /\ call.result = SelectSeq(Candidates, LAMBDA c : c \in Elems(call.result))
        /\ \A i, j \in 1 .. Len(call.result) : i # j => call.result[i] # call.result[j]

\* find_refs has returned two references of the occurrence list and has left
\* out a candidate that stands behind them
C20_Witness ==
    /\ ReturnsRefs
    /\ \E i, j, k \in 1 .. Len(Candidates) :
          /\ i < j /\ j < k
          /\ call.result = <<Candidates[i], Candidates[j]>>
          /\ Candidates[k] \notin Elems(call.result)

\* what the verification of a candidate comes to: its file does not compile,
\* goto_definition finds nothing, several targets, the definition of the
\* call, or another definition
Outcome(c) ==
    IF ~CompileOk(fs[c.uri]) THEN "CompileFailed"
    ELSE LET d == goto_definition(c.uri, fs, kcl_pos(c.pos))
         IN  IF d.kind = "None" THEN "NotFound"
             ELSE IF d.kind = "Array" THEN "Multi"
             ELSE IF d.loc = call.def_loc THEN "Match" ELSE "Other"
\* the call has reached the verification of the candidates
Verifies ==
    /\ call.op = "find_refs" /\ PkgRoot # "None" /\ call.in.build_ok
    /\ Candidates # <<>>
CompilationFailedLogs ==
    {i \in 1 .. Len(call.logs) : call.logs[i][2] = "compilation failed"}

\* C21 as stated: a candidate that finds no definition, finds several, or
\* whose file does not compile is left out and the logger is called for it;
\* find_refs returns Ok(Some(..)) and every candidate that resolves to the
\* definition is in it.
C21_ExcludedAndLogged ==
    Verifies =>
        /\ call.kind = "Some"
        /\ \A c \in Elems(Candidates) :
              /\ Outcome(c) \in {"NotFound", "Multi", "CompileFailed"}
                    => (c \notin Elems(call.result) /\ call.logs # <<>>)
              /\ Outcome(c) = "Match" => c \in Elems(call.result)

\* C21, amended: such a candidate is left out and find_refs returns
\* Ok(Some(..)) with every candidate that resolves to the definition, whatever
\* the logger returns; the logger is called for the candidates whose file
\* does not compile, and only for them.
C21_ExcludedNotError ==
    Verifies =>
        /\ call.kind = "Some"
        /\ \A c \in Elems(Candidates) :
              /\ Outcome(c) \in {"NotFound", "Multi", "CompileFailed"}
                    => c \notin Elems(call.result)
              /\ Outcome(c) = "Match" => c \in Elems(call.result)
        /\ CompilationFailedLogs = 1 .. Len(call.logs)
        /\ (call.logs # <<>>)
              <=> (\E c \in Elems(Candidates) : Outcome(c) = "CompileFailed")

\* find_refs, with a logger that fails, has left out a candidate whose file
\* does not compile and has kept a candidate that stands behind it
C21_Witness ==
    /\ Verifies /\ ~call.in.logger_ok
    /\ \E i, j \in 1 .. Len(Candidates) :
          /\ i < j
          /\ Outcome(Candidates[i]) = "CompileFailed"
          /\ Candidates[j] \in Elems(call.result)

\* C28: in one call of find_refs the logger is called once for a file that
\* holds candidates and does not compile, with a message that names that
\* file, and not for another file.
C28_LoggedOncePerFile ==
    Verifies =>
        \A f \in Files :
            Cardinality({i \in 1 .. Len(call.logs) :
                            call.logs[i] = <<f, "compilation failed">>})
              = IF \E c \in Elems(Candidates) : c.uri = f /\ Outcome(c) = "CompileFailed"
                THEN 1 ELSE 0

\* the call of find_refs finds nothing: the definition has no package root,
\* the index could not be built, or the index does not hold the name
FindsNothing ==
    /\ call.op = "find_refs"
    /\ (PkgRoot = "None" \/ ~call.in.build_ok \/ Candidates = <<>>)

\* C22: a call of find_refs that finds nothing returns Ok(None), never Err,
\* and has called the logger.
C22_MissLoggedNotError ==
    FindsNothing => (call.kind = "None" /\ call.logs # <<>>)

\* C22, the request handlers: a definition request for a file that has an
\* entry in which the lookup finds nothing puts on the task channel a log
\* message and then the Ok response with the empty result.
C22_HandlerMissLogged ==
    [][(/\ TakesRequest /\ ~shutdown_requested
        /\ Head(receiver).method = "textDocument/definition"
        /\ Head(receiver).file \in DOMAIN vfs
        /\ Head(receiver).file \in DOMAIN analysis
        /\ ~LookupFound(analysis[Head(receiver).file].prog))
       => \E i \in 1 .. Len(Appended) - 1 :
             /\ Appended[i] = TaskNotify(LogMessage("Definition item not found"))
             /\ Appended[i + 1] = TaskResponse(ResponseOk(Head(receiver).id, 0))]_vars

\* the step takes a definition request, before any shutdown, for a path
\* without file id in the vfs or without entry in the snapshot
TakesIdentityError ==
    /\ TakesRequest /\ ~shutdown_requested
    /\ Head(receiver).method = "textDocument/definition"
    /\ get_db_err(snapshot(State), vfs, Head(receiver).file) # "none"

\* C23: a definition request for a path that has no file id in the vfs, or no
\* entry in the snapshot, is answered with an error response carrying the id
\* of the request, after a log message with the error of get_db; the turn of
\* the loop changes neither vfs, cache, open files, word index nor shutdown
\* flag, submits no job and leaves the loop running.
C23_IdentityErrorScoped ==
    [][TakesIdentityError =>
          LET request == Head(receiver)
              e == get_db_err(snapshot(State), vfs, request.file)
          IN  /\ \E i \in 1 .. Len(Appended) - 1 :
                    /\ Appended[i] = TaskNotify(LogMessage(e))
                    /\ Appended[i + 1]
                         = TaskResponse(ResponseErr(request.id, "InternalError"))
              /\ \A t \in Elems(Appended) :
                    t.task = "Response" => (t.msg.id = request.id /\ t.msg.error # "none")
              /\ UNCHANGED <<vfs, analysis, opened_files, word_index,
                             shutdown_requested, thread_pool>>
              /\ run' = "running"]_vars

\* the task channel holds the error response of a request and, behind it,
\* the Ok response of a later definition request
C23_Witness ==
    /\ run = "running" /\ ~shutdown_requested
    /\ \E i, j \in 1 .. Len(task_receiver) :
          /\ i < j
          /\ task_receiver[i].task = "Response" /\ task_receiver[j].task = "Response"
          /\ task_receiver[i].msg.error = "InternalError"
          /\ task_receiver[j].msg.error = "none"
          /\ task_receiver[j].msg.id > task_receiver[i].msg.id

\* the step is the handler of a change notification for a file of the vfs
ChangesDocument ==
    /\ call' # call /\ call'.op = "on_did_change_text_document"
    /\ call'.path \in DOMAIN vfs

\* C24: a change notification with an empty list of changes leaves the text
\* of the file as it is; after a notification that holds a change without a
\* range, the text is the replacement text of the last such change with the
\* changes behind it applied, whatever came before it: the replacement text
\* itself when that change is the last.
C24_EmptyAndFullReplacement ==
    [][ChangesDocument =>
          LET changes == call'.content_changes
              path == call'.path
              full == {k \in 1 .. Len(changes) : ~changes[k].ranged}
          IN  /\ changes = <<>> => vfs'[path] = vfs[path]
              /\ \A k \in full :
                    (\A j \in full : j <= k) =>
                       /\ vfs'[path] = apply_document_changes(changes[k].text,
                                          SubSeq(changes, k + 1, Len(changes)))
                       /\ k = Len(changes) => vfs'[path] = changes[k].text]_vars

\* a range change followed by a change of the whole document has been
\* applied to a text that is not empty
C24_Witness ==
    /\ call.op = "on_did_change_text_document"
    /\ Len(call.content_changes) = 2
    /\ call.content_changes[1].ranged /\ ~call.content_changes[2].ranged
    /\ vfs["a.k"] = <<"a", "b">>

\* the texts between the changes of a list: the old text, and after each
\* change the text before it with the characters from the start to the end of
\* the range replaced (a range of length zero inserts, an empty replacement
\* deletes), or the replacement text when the change has no range
TextAfter(old_text, changes) ==
    LET T[i \in 0 .. Len(changes)] ==
            IF i = 0 THEN old_text
            ELSE LET before == T[i - 1]
                     c == changes[i]
                     start == Offset(before, c.sl, c.sc)
                     end == Offset(before, c.el, c.ec)
                 IN  IF ~c.ranged THEN c.text
                     ELSE [n \in 1 .. start + Len(c.text) + (Len(before) - end) |->
                             IF n <= start THEN before[n]
                             ELSE IF n <= start + Len(c.text) THEN c.text[n - start]
                             ELSE before[n - Len(c.text) - start + end]]
    IN  T[Len(changes)]

\* the steps of test_apply_document_changes: text, changes, expected text
TestSteps ==
    {<<<<>>, <<>>, <<>>>>,
     <<<<>>, TheChanges, <<"t", "h", "e">>>>,
     <<<<"t", "h", "e">>, QuickChanges, <<"t", "h", "e", " ", "q", "u", "i", "c", "k">>>>,
     <<<<"t", "h", "e", " ", "q", "u", "i", "c", "k">>, FoxesChanges, <<"q", "u", "i", "c", "k", " ", "f", "o", "x", "e", "s">>>>,
     <<<<"q", "u", "i", "c", "k", " ", "f", "o", "x", "e", "s">>, DreamChanges, <<"q", "u", "i", "c", "k", " ", "f", "o", "x", "e", "s", "\n", "d", "r", "e", "a", "m">>>>,
     <<<<"q", "u", "i", "c", "k", " ", "f", "o", "x", "e", "s", "\n", "d", "r", "e", "a", "m">>, HaveChanges, <<"q", "u", "i", "c", "k", " ", "f", "o", "x", "e", "s", "\n", "h", "a", "v", "e", " ", "d", "r", "e", "a", "m">>>>}

\* C25: the text of the file after a change notification is the text before
\* it with the changes applied in the order of the list, each range taken in
\* the text the changes before it have produced; on the steps of
\* test_apply_document_changes it is the text the test expects.
C25_AppliedInOrder ==
    [][ChangesDocument =>
          /\ vfs'[call'.path] = TextAfter(vfs[call'.path], call'.content_changes)
          /\ \A step \in TestSteps :
                (vfs[call'.path] = step[1] /\ call'.content_changes = step[2])
                    => vfs'[call'.path] = step[3]]_vars

\* the deletion of characters 0-4 and the insertion at 5 have made
\* `quick foxes` of `the quick`
C25_Witness ==
    /\ call.op = "on_did_change_text_document"
    /\ call.content_changes = FoxesChanges
    /\ vfs["a.k"] = <<"q", "u", "i", "c", "k", " ", "f", "o", "x", "e", "s">>

\* C26: a turn of the loop that takes a notification other than `exit` leaves
\* the vfs, the cache, the set of open files, the word indexes and the pool
\* as the same notification leaves them when the shutdown flag is not set,
\* and leaves the flag as it is.
C26_NotificationsAfterShutdown ==
    [][TakesNotification =>
          LET S == handle_event([State EXCEPT !.shutdown_requested = FALSE],
                                EventLsp(Head(receiver)))
          IN  /\ vfs' = S.vfs
              /\ analysis' = S.analysis
              /\ opened_files' = S.opened_files
              /\ word_index' = S.word_index
              /\ thread_pool' = S.thread_pool
              /\ shutdown_requested' = shutdown_requested]_vars

\* after the shutdown request the loop has handled a change of a.k: the vfs
\* holds the new text and the index of the root is no longer the index of
\* the files on disk
C26_Witness ==
    /\ shutdown_requested /\ run = "running"
    /\ LogMessage("on did_change file") \in Elems(sender)
    /\ "a.k" \in DOMAIN vfs /\ vfs["a.k"] = 3
    /\ Contains(opened_files, "a.k")
    /\ ~SameOccurrences(word_index["/"], build_word_index("/", DiskInit))

\* the step is a turn of the loop that handles an event; the step is a turn
\* of a job of the pool
HandlesEvent == TakesRequest \/ TakesNotification \/ TakesTask
JobTurn == thread_pool' # thread_pool /\ ~HandlesEvent

TakesLsp == TakesRequest \/ TakesNotification \/ TakesExit

C30_JobsOutliveShutdown ==
    [][/\ (TakesRequest /\ Head(receiver).method = "shutdown") =>
             /\ thread_pool' = thread_pool
             /\ SubSeq(task_receiver', 1, Len(task_receiver)) = task_receiver
       /\ (shutdown_requested /\ run = "running" /\ JobTurn) =>
             \E i \in Running :
                LET j == thread_pool[i]
                IN  /\ j.pos <= Len(j.snapshot.opened_files)
                       => Appended = DiagnosticsTasks(j.snapshot, j.pos)
                    /\ \/ thread_pool' = RemoveAt(thread_pool, i)
                       \/ thread_pool' = [thread_pool EXCEPT ![i].pos = j.pos + 1]
       /\ (shutdown_requested /\ TakesTask /\ Head(task_receiver).task = "Notify") =>
             /\ sender' = <<Head(task_receiver).msg>>
             /\ run' = "running"]_vars

\* the shutdown was requested, a job over two open files is still in the
\* pool at its second file, and the last turn of the loop has sent the
\* client the publishDiagnostics of the first
C30_Witness ==
    /\ shutdown_requested /\ run = "running"
    /\ \E i \in 1 .. Len(thread_pool) :
          /\ Len(thread_pool[i].snapshot.opened_files) = 2
          /\ thread_pool[i].pos = 2
          /\ \E m \in Elems(sender) :
                IsPublish(m) /\ m.uri = thread_pool[i].snapshot.opened_files[1]

\* a job of the pool before the step is a job of the pool after it, with the
\* snapshot it had
KeepsSnapshots ==
    \A i \in 1 .. Len(thread_pool') :
        \E k \in 1 .. Len(thread_pool) : thread_pool'[i].snapshot = thread_pool[k].snapshot

\* C31: every step that changes the analysis cache, the word index, the set
\* of open files or the request queue is a turn of the loop that handles an
\* event; a turn of a job changes none of them, nor the vfs, the shutdown
\* flag or what the client is sent: it puts on the task channel, behind the
\* tasks that wait there, what its own snapshot gives for the open file at
\* its position, and leaves the snapshots of the jobs as they are.
C31_OnlyLoopWrites ==
    [][/\ (\/ analysis' # analysis \/ word_index' # word_index
           \/ opened_files' # opened_files \/ request_queue' # request_queue)
             => HandlesEvent
       /\ JobTurn =>
             /\ UNCHANGED <<analysis, word_index, opened_files, request_queue,
                            vfs, shutdown_requested, sender>>
             /\ SubSeq(task_receiver', 1, Len(task_receiver)) = task_receiver
             /\ KeepsSnapshots
             /\ \E i \in Running :
                   LET j == thread_pool[i]
                   IN  Appended \in
                          {<<>>} \cup {DiagnosticsTasks(j.snapshot, p) :
                                          p \in 1 .. Len(j.snapshot.opened_files)}]_vars

\* a job has sent the publishDiagnostics of its first open file and is still
\* in the pool, while the loop has since written the cache and the word index
\* of the live state
C31_Witness ==
    \E i \in 1 .. Len(thread_pool) :
        LET j == thread_pool[i]
        IN  /\ j.pos = 2
            /\ \E t \in Elems(task_receiver) :
                  IsPublishTask(t) /\ t.msg.uri = j.snapshot.opened_files[1]
            /\ j.snapshot.db # analysis
            /\ j.snapshot.word_index # word_index

\* C32: the turn of the loop that takes a notification leaves the set of
\* roots of the index map as it is, and leaves the index of every root that
\* the file of the notification does not lie under as it is; a notification
\* that is no edit, delete or rename leaves the whole map as it is.
C32_OnlyRootsAbove ==
    [][TakesNotification =>
          /\ DOMAIN word_index' = DOMAIN word_index
          /\ \A root \in DOMAIN word_index :
                ~StartsWith(Head(receiver).file, root)
                   => word_index'[root] = word_index[root]
          /\ Head(receiver).method \notin
                {"textDocument/didChange", "workspace/didDeleteFiles",
                 "workspace/didRenameFiles"}
                => word_index' = word_index]_vars

\* the map holds the index of /pkg only; an edit of b.k has changed it, and
\* the delete of a.k, which lies under / only, was handled
C32_Witness ==
    /\ DOMAIN word_index = {"/pkg"}
    /\ receiver = <<>> /\ run = "running"
    /\ "a.k" \notin DOMAIN fs
    /\ "b.k" \in DOMAIN vfs /\ vfs["b.k"] = 1
    /\ word_index["/pkg"] # build_word_index("/pkg", DiskInit)

\* the occurrences of a name in the current content of the files under a
\* root, edits of the vfs included
CurrentOccurrences(root, name) ==
    LET index == build_word_index(root, CurrentContents)
    IN  IF name \in DOMAIN index THEN index[name] ELSE <<>>

\* C33: a call of find_refs scans a root only when no earlier call has
\* scanned it; a later call for the root scans nothing, and its candidates
\* are the occurrences of the name in the current content of the files, the
\* edits of the change notifications included.
C33_ScansOnFirstQueryOnly ==
    [][call'.n > call.n =>
          IF call.scans[call'.root] = 0
          THEN call'.scans[call'.root] = 1
          ELSE /\ call'.scans = call.scans
               /\ \A l \in Elems(call'.candidates) \cup
                            Elems(CurrentOccurrences(call'.root, call'.name)) :
                     Len(SelectSeq(call'.candidates, LAMBDA x : x = l))
                       = Len(SelectSeq(CurrentOccurrences(call'.root, call'.name),
                                       LAMBDA x : x = l))]_vars

\* C34: after a job in which the name or the URI of an open file could not
\* be read, the task channel holds a log message, and it holds the
\* publishDiagnostics of every other open file that has an entry in the
\* snapshot.
C34_ErrorLoggedOthersPublished ==
    (/\ call.op = "handle_diagnostics"
     /\ \E f \in call.unreadable : Contains(call.snapshot.opened_files, f))
    => /\ \E t \in Elems(task_receiver) :
             t.task = "Notify" /\ t.msg.method = "window/logMessage"
       /\ \A f \in DOMAIN call.snapshot.db \ call.unreadable :
             Contains(call.snapshot.opened_files, f)
                => TaskNotify(PublishDiagnostics(f, call.snapshot.db[f].diags))
                      \in Elems(task_receiver)

\* C35: the request queue holds the ids of the requests the loop has taken
\* and the client was sent no response for; no id is answered twice; a turn
\* sends a response only with an id that is pending, or that the turn itself
\* has registered, and the id is not pending after the turn; a response task
\* whose id is not pending changes neither the queue nor what the client is
\* sent.
C35_QueueHoldsPending ==
    /\ [](request_queue = {id \in call.received : call.answered[id] = 0})
    /\ [](\A id \in RequestIds : call.answered[id] <= 1)
    /\ [][call' # call =>
             /\ \A m \in Elems(sender') :
                   IsResponse(m) =>
                      /\ m.id \in request_queue \cup (call'.received \ call.received)
                      /\ m.id \notin request_queue'
             /\ (call'.op = "stray" /\ call'.id \notin request_queue) =>
                   /\ sender' = <<>>
                   /\ request_queue' = request_queue]_vars

\* a response for a request that was answered before has been handed to
\* handle_task and dropped, while another request is pending
C35_Witness ==
    /\ call.op = "stray"
    /\ call.answered[call.id] = 1
    /\ call.id \notin request_queue /\ request_queue # {}
    /\ sender = <<>>

\* C36: the turn of the loop that takes a didChange for a path without file
\* id in the vfs leaves the vfs, the word index, the analysis cache, the set
\* of open files and the pool as they are; it sends the client the error of
\* the handler as a log message and the loop goes on.
C36_FailedChangeMutatesNothing ==
    [][(/\ TakesNotification
        /\ Head(receiver).method = "textDocument/didChange"
        /\ Head(receiver).file \notin DOMAIN vfs) =>
          /\ UNCHANGED <<vfs, word_index, analysis, opened_files, thread_pool>>
          /\ LogMessage("Already checked that the file_id exists!") \in Elems(sender')
          /\ run' = "running"]_vars

\* the last turn has sent the error of the change handler, in a workspace
\* whose indexes hold the words of the files on disk
C36_Witness ==
    /\ LogMessage("Already checked that the file_id exists!") \in Elems(sender)
    /\ run = "running"
    /\ vfs # EmptyMap
    /\ \A root \in Roots : word_index[root] = build_word_index(root, DiskInit)

\* C37: no file is twice in the set of open files; the turn of the loop that
\* takes a didOpen for a file leaves the set with the file added, the turn
\* that takes a didClose leaves it with the file taken out, and every other
\* step leaves the set as it is, so that the set holds the files whose latest
\* open or close was an open; the turn that takes a didClose leaves the vfs,
\* the analysis cache and the pool as they are.
C37_OpenSetFollowsOpenClose ==
    [][/\ \A i, j \in 1 .. Len(opened_files') :
             opened_files'[i] = opened_files'[j] => i = j
       /\ (TakesNotification /\ Head(receiver).method = "textDocument/didOpen") =>
             Elems(opened_files') = Elems(opened_files) \cup {Head(receiver).file}
       /\ (TakesNotification /\ Head(receiver).method = "textDocument/didClose") =>
             /\ Elems(opened_files') = Elems(opened_files) \ {Head(receiver).file}
             /\ UNCHANGED <<vfs, analysis, thread_pool>>
       /\ ~(/\ TakesNotification
            /\ Head(receiver).method \in
                  {"textDocument/didOpen", "textDocument/didClose"})
             => opened_files' = opened_files]_vars

\* a.k and b.k were opened, a.k was closed: b.k alone is open, and a.k has
\* kept its text and its entry
C37_Witness ==
    /\ opened_files = <<"b.k">>
    /\ "a.k" \in DOMAIN vfs /\ "a.k" \in DOMAIN analysis
    /\ receiver = <<>> /\ run = "running"

\* C38: a step adds at most one job to the pool, and only the turn of the
\* loop that takes a notification and changes a text of the vfs adds one; the
\* turn that takes a task changes no text, compiles nothing and adds no job;
\* and when the threads of the server are scheduled, the server comes to
\* rest for good: the pool is empty, and the two channels are empty unless
\* run() has returned.
C38_Quiesces ==
    /\ [][/\ Len(thread_pool') <= Len(thread_pool) + 1
          /\ Len(thread_pool') > Len(thread_pool)
                => (TakesNotification /\ vfs' # vfs)
          /\ TakesTask => UNCHANGED <<vfs, analysis, thread_pool>>]_vars
    /\ <>[](/\ thread_pool = <<>>
            /\ run = "running" => (receiver = <<>> /\ task_receiver = <<>>))

\* the client has sent all its messages, the jobs have run and the loop has
\* forwarded the last publishDiagnostics: nothing is left to do
C38_Witness ==
    /\ sent = MaxMsgs /\ run = "running"
    /\ receiver = <<>> /\ task_receiver = <<>> /\ thread_pool = <<>>
    /\ \E m \in Elems(sender) : IsPublish(m)
    /\ Len(opened_files) = 2

C40_NoLockDeadlock ==
    /\ [](\A t \in Threads :
            /\ call.waiting[t] # "none" => call.holds[t] = <<>>
            /\ call.prog[t] = <<>> => call.holds[t] = <<>>
            /\ (call.prog[t] # <<>> /\ Head(call.prog[t]) \in {"send", "execute"})
                  => call.holds[t] = <<>>)
    /\ \A t \in Threads :
          (call.waiting[t] # "none") ~> (call.waiting[t] = "none")

\* the loop waits for the write lock while a worker holds a read guard and
\* the other worker waits behind the loop
C40_Witness ==
    /\ call.waiting[0] = "write"
    /\ \E t, u \in Threads \ {0} :
          /\ t # u
          /\ call.holds[t] = <<"read">>
          /\ call.waiting[u] = "read"

====
